---- MODULE Spec2Model ----
(***************************************************************************)
(* Model of the SADS attribute resolution engine of                        *)
(* src/ai_sads_poc/generate_sads_attributes.py.                            *)
(*                                                                         *)
(* A Python str is modelled as a sequence of one-character strings, so the *)
(* string operations of the parser (strip, split, startswith, lower,       *)
(* upper, capitalize, replace, substring test) are computed character by   *)
(* character, as Python computes them.                                     *)
(***************************************************************************)
EXTENDS Integers, Sequences, FiniteSets, TLC

(***************************************************************************)
(* Python str operations                                                   *)
(***************************************************************************)
LowerCase ==
    << "a", "b", "c", "d", "e", "f", "g", "h", "i", "j", "k", "l", "m",
       "n", "o", "p", "q", "r", "s", "t", "u", "v", "w", "x", "y", "z" >>

UpperCase ==
    << "A", "B", "C", "D", "E", "F", "G", "H", "I", "J", "K", "L", "M",
       "N", "O", "P", "Q", "R", "S", "T", "U", "V", "W", "X", "Y", "Z" >>

\* the white space str.strip() removes, among the characters of the model
Whitespace == {" ", "\t", "\n", "\r"}

\* position of character c in the alphabet, 0 when it is no member
Pos(c, alphabet) ==
    IF \E k \in 1..Len(alphabet) : alphabet[k] = c
    THEN CHOOSE k \in 1..Len(alphabet) : alphabet[k] = c
    ELSE 0

lower_char(c) == IF Pos(c, UpperCase) > 0 THEN LowerCase[Pos(c, UpperCase)] ELSE c

upper_char(c) == IF Pos(c, LowerCase) > 0 THEN UpperCase[Pos(c, LowerCase)] ELSE c

\* s.lower()
str_lower(s) == [k \in 1..Len(s) |-> lower_char(s[k])]

\* s.upper()
str_upper(s) == [k \in 1..Len(s) |-> upper_char(s[k])]

\* s.capitalize(): the first character upper-cased, every other one lower-cased
str_capitalize(s) ==
    [k \in 1..Len(s) |-> IF k = 1 THEN upper_char(s[k]) ELSE lower_char(s[k])]

\* s.replace(a, b) for single characters a and b
str_replace(s, a, b) == [k \in 1..Len(s) |-> IF s[k] = a THEN b ELSE s[k]]

\* s.startswith(p)
str_startswith(s, p) == Len(s) >= Len(p) /\ SubSeq(s, 1, Len(p)) = p

\* sub in s
str_contains(s, sub) ==
    \E k \in 0..(Len(s) - Len(sub)) : SubSeq(s, k + 1, k + Len(sub)) = sub

\* s with the leading and trailing characters that are in chars removed
str_strip_chars(s, chars) ==
    IF \A k \in 1..Len(s) : s[k] \in chars
    THEN << >>
    ELSE LET lo == CHOOSE k \in 1..Len(s) :
                       s[k] \notin chars /\ \A j \in 1..(k - 1) : s[j] \in chars
             hi == CHOOSE k \in 1..Len(s) :
                       s[k] \notin chars /\ \A j \in (k + 1)..Len(s) : s[j] \in chars
         IN SubSeq(s, lo, hi)

\* s.strip()
str_strip(s) == str_strip_chars(s, Whitespace)

\* s.split(sep) for a single character sep: every occurrence separates, so
\* adjacent separators give empty pieces and "" gives [""]
RECURSIVE str_split(_, _)
str_split(s, sep) ==
    IF \A k \in 1..Len(s) : s[k] # sep
    THEN << s >>
    ELSE LET at == CHOOSE k \in 1..Len(s) :
                       s[k] = sep /\ \A j \in 1..(k - 1) : s[j] # sep
         IN << SubSeq(s, 1, at - 1) >> \o str_split(SubSeq(s, at + 1, Len(s)), sep)

\* s.split(sep, 1): split at the first occurrence only
str_split_once(s, sep) ==
    IF \A k \in 1..Len(s) : s[k] # sep
    THEN << s >>
    ELSE LET at == CHOOSE k \in 1..Len(s) :
                       s[k] = sep /\ \A j \in 1..(k - 1) : s[j] # sep
         IN << SubSeq(s, 1, at - 1), SubSeq(s, at + 1, Len(s)) >>

\* "".join(parts)
RECURSIVE str_join(_)
str_join(parts) ==
    IF parts = << >> THEN << >> ELSE Head(parts) \o str_join(Tail(parts))

(***************************************************************************)
(* Literals of parse_llm_sads_string_to_dict                               *)
(***************************************************************************)
DataSadsPrefix == <<"d", "a", "t", "a", "-", "s", "a", "d", "s", "-">>

CustomPrefix == <<"c", "u", "s", "t", "o", "m", ":">>

\* mutant: the colors rule without the "border" substring
ColorSubstringsWithoutBorder ==
    { <<"c", "o", "l", "o", "r">>, <<"b", "g">> }

ColorSubstrings ==
    { <<"c", "o", "l", "o", "r">>, <<"b", "g">>, <<"b", "o", "r", "d", "e", "r">> }

SpacingSubstrings ==
    { <<"p", "a", "d", "d", "i", "n", "g">>, <<"m", "a", "r", "g", "i", "n">>,
      <<"g", "a", "p">> }

FontSizeSubstring == <<"f", "o", "n", "t", "s", "i", "z", "e">>

FontWeightSubstring == <<"f", "o", "n", "t", "w", "e", "i", "g", "h", "t">>

BorderRadiusSubstring ==
    <<"b", "o", "r", "d", "e", "r", "r", "a", "d", "i", "u", "s">>

GenericCssProperties ==
    { <<"t", "e", "x", "t", "a", "l", "i", "g", "n">>,
      <<"d", "i", "s", "p", "l", "a", "y">>,
      <<"p", "o", "s", "i", "t", "i", "o", "n">>,
      <<"o", "v", "e", "r", "f", "l", "o", "w">>,
      <<"c", "u", "r", "s", "o", "r">>,
      <<"t", "r", "a", "n", "s", "i", "t", "i", "o", "n">>,
      <<"b", "o", "x", "s", "i", "z", "i", "n", "g">>,
      <<"r", "e", "s", "i", "z", "e">> }

ColorTokenPrefix == <<"C", "O", "L", "O", "R", "_", "T", "O", "K", "E", "N", "_">>

SpacingTokenPrefix ==
    <<"S", "P", "A", "C", "I", "N", "G", "_", "T", "O", "K", "E", "N", "_">>

FontWeightTokenPrefix ==
    <<"F", "O", "N", "T", "_", "W", "E", "I", "G", "H", "T", "_", "T", "O", "K",
      "E", "N", "_">>

BorderRadiusTokenPrefix ==
    <<"B", "O", "R", "D", "E", "R", "_", "R", "A", "D", "I", "U", "S", "_", "T",
      "O", "K", "E", "N", "_">>

\* the keys an attr_value_dict can get
VariantKeys ==
    { "color_token", "spacing_token", "font_size_value", "font_weight_token",
      "border_radius_token", "custom_value" }

(***************************************************************************)
(* Python dicts are functions; {} is the function with the empty domain.   *)
(***************************************************************************)
EmptyDict == [k \in {} |-> << >>]

\* mutant: an existing key keeps its value, as d.setdefault(key, v) does
dict_set_keep_first(d, key, v) ==
    [k \in (DOMAIN d) \cup {key} |-> IF k \in DOMAIN d THEN d[k] ELSE v]

\* d[key] = v
dict_set(d, key, v) ==
    [k \in (DOMAIN d) \cup {key} |-> IF k = key THEN v ELSE d[k]]

(***************************************************************************)
(* The theme context: None, or a dict from category name to the dict of    *)
(* that category's tokens.  The parser reads only the categories' keys, so *)
(* a category is modelled by the set of its token names.                   *)
(***************************************************************************)
\* `if theme_context:` is false for None and for the empty dict
theme_truthy(theme) == ~theme.none /\ DOMAIN theme.dict # {}

\* mutant: the membership test made on the lower-cased value
in_category_ignoring_case(theme, category, value) ==
    category \in DOMAIN theme.dict /\ str_lower(value) \in theme.dict[category]

\* category in theme_context and value in theme_context[category]
in_category(theme, category, value) ==
    category \in DOMAIN theme.dict /\ value \in theme.dict[category]

(***************************************************************************)
(* The tokenizer: one space-separated fragment attr                        *)
(***************************************************************************)
\* sads_attributes_string.strip().split(" ")
split_attributes(s) == str_split(str_strip(s), " ")

\* mutant: `if not attr: continue`, which skips only the empty fragment
is_blank_only_empty(attr) == attr = << >>

\* `if not attr.strip(): continue`
is_blank(attr) == str_strip(attr) = << >>

\* parts = attr.split("=", 1)
parts_of(attr) == str_split_once(attr, "=")

\* mutant: the test of len(parts) left out
is_malformed_never(attr) == FALSE

\* `if len(parts) != 2`
is_malformed(attr) == Len(parts_of(attr)) # 2

\* full_key = parts[0].strip()
full_key_of(attr) == str_strip(parts_of(attr)[1])

\* raw_value_with_quotes = parts[1].strip()
raw_value_with_quotes_of(attr) == str_strip(parts_of(attr)[2])

\* mutant: the prefix test left out
is_non_sads_never(attr) == FALSE

\* `if not full_key.startswith("data-sads-")`
is_non_sads(attr) == ~str_startswith(full_key_of(attr), DataSadsPrefix)

\* "".join(p.capitalize() for p in key_parts[1:])
capitalize_rest(key_parts) ==
    str_join([k \in 1..(Len(key_parts) - 1) |-> str_capitalize(key_parts[k + 1])])

\* mutant: the first segment lower-cased
normalize_key_lower_first(full_key) ==
    LET sads_key == str_strip(SubSeq(full_key, Len(DataSadsPrefix) + 1, Len(full_key)))
    IN IF str_contains(sads_key, <<"-">>)
       THEN LET key_parts == str_split(sads_key, "-")
            IN str_lower(key_parts[1]) \o capitalize_rest(key_parts)
       ELSE sads_key

\* mutant: every segment capitalized, the first one too
normalize_key_capitalize_all(full_key) ==
    LET sads_key == str_strip(SubSeq(full_key, Len(DataSadsPrefix) + 1, Len(full_key)))
    IN IF str_contains(sads_key, <<"-">>)
       THEN LET key_parts == str_split(sads_key, "-")
            IN str_capitalize(key_parts[1]) \o capitalize_rest(key_parts)
       ELSE sads_key

\* sads_key from full_key: the prefix removed, stripped, kebab-case joined
normalize_key(full_key) ==
    LET sads_key == str_strip(SubSeq(full_key, Len(DataSadsPrefix) + 1, Len(full_key)))
    IN IF str_contains(sads_key, <<"-">>)
       THEN LET key_parts == str_split(sads_key, "-")
            IN key_parts[1] \o capitalize_rest(key_parts)
       ELSE sads_key

sads_key_of(attr) == normalize_key(full_key_of(attr))

\* value = raw_value_with_quotes.strip('"')
value_of(attr) == str_strip_chars(raw_value_with_quotes_of(attr), {"\""})

(***************************************************************************)
(* The classifier                                                          *)
(***************************************************************************)
\* f"<PREFIX>{value.upper().replace('-', '_')}"
token_string(prefix, value) == prefix \o str_replace(str_upper(value), "-", "_")

\* mutant: the test of the key left out of every category rule
key_mentions_always(sads_key, substrings) == TRUE

\* any(k in sads_key.lower() for k in substrings)
key_mentions(sads_key, substrings) ==
    \E k \in substrings : str_contains(str_lower(sads_key), k)

\* mutant: the spacing rule tried before the colors rule
match_category_spacing_first(sads_key, value, theme) ==
    IF ~theme_truthy(theme) THEN EmptyDict
    ELSE IF in_category(theme, "spacing", value)
            /\ key_mentions(sads_key, SpacingSubstrings)
    THEN dict_set(EmptyDict, "spacing_token", token_string(SpacingTokenPrefix, value))
    ELSE IF in_category(theme, "colors", value)
            /\ key_mentions(sads_key, ColorSubstrings)
    THEN dict_set(EmptyDict, "color_token", token_string(ColorTokenPrefix, value))
    ELSE IF in_category(theme, "fontSize", value)
            /\ key_mentions(sads_key, {FontSizeSubstring})
    THEN dict_set(EmptyDict, "font_size_value", value)
    ELSE IF in_category(theme, "fontWeight", value)
            /\ key_mentions(sads_key, {FontWeightSubstring})
    THEN dict_set(EmptyDict, "font_weight_token",
                  token_string(FontWeightTokenPrefix, value))
    ELSE IF in_category(theme, "borderRadius", value)
            /\ key_mentions(sads_key, {BorderRadiusSubstring})
    THEN dict_set(EmptyDict, "border_radius_token",
                  token_string(BorderRadiusTokenPrefix, value))
    ELSE EmptyDict

\* the if/elif chain under `if theme_context:`; {} when nothing is mapped
match_category(sads_key, value, theme) ==
    IF ~theme_truthy(theme) THEN EmptyDict
    ELSE IF in_category(theme, "colors", value)
            /\ key_mentions(sads_key, ColorSubstrings)
    THEN dict_set(EmptyDict, "color_token", token_string(ColorTokenPrefix, value))
    ELSE IF in_category(theme, "spacing", value)
            /\ key_mentions(sads_key, SpacingSubstrings)
    THEN dict_set(EmptyDict, "spacing_token", token_string(SpacingTokenPrefix, value))
    ELSE IF in_category(theme, "fontSize", value)
            /\ key_mentions(sads_key, {FontSizeSubstring})
    THEN dict_set(EmptyDict, "font_size_value", value)
    ELSE IF in_category(theme, "fontWeight", value)
            /\ key_mentions(sads_key, {FontWeightSubstring})
    THEN dict_set(EmptyDict, "font_weight_token",
                  token_string(FontWeightTokenPrefix, value))
    ELSE IF in_category(theme, "borderRadius", value)
            /\ key_mentions(sads_key, {BorderRadiusSubstring})
    THEN dict_set(EmptyDict, "border_radius_token",
                  token_string(BorderRadiusTokenPrefix, value))
    ELSE EmptyDict

\* mutant: the final else of the fallback rules left out
fallback_value_no_else(sads_key, value) ==
    IF str_lower(sads_key) \in GenericCssProperties
    THEN dict_set(EmptyDict, "custom_value", value)
    ELSE IF str_contains(str_lower(sads_key), FontSizeSubstring)
    THEN dict_set(EmptyDict, "font_size_value", value)
    ELSE EmptyDict

\* mutant: the fontsize rule of the fallback left out
fallback_value_no_fontsize(sads_key, value) ==
    dict_set(EmptyDict, "custom_value", value)

\* `if not mapped:` the allow-list, the fontsize rule, the universal fallback
fallback_value(sads_key, value) ==
    IF str_lower(sads_key) \in GenericCssProperties
    THEN dict_set(EmptyDict, "custom_value", value)
    ELSE IF str_contains(str_lower(sads_key), FontSizeSubstring)
    THEN dict_set(EmptyDict, "font_size_value", value)
    ELSE dict_set(EmptyDict, "custom_value", value)

\* mutant: the custom: prefix removed, and the remainder matched like any value
classify_remainder_matched(sads_key, value, theme) ==
    LET rest == IF str_startswith(value, CustomPrefix)
                THEN SubSeq(value, Len(CustomPrefix) + 1, Len(value))
                ELSE value
        matched == match_category(sads_key, rest, theme)
    IN IF matched # EmptyDict THEN matched
       ELSE dict_set(EmptyDict, "custom_value", rest)

\* attr_value_dict as it stands at `if attr_value_dict:`
classify(sads_key, value, theme) ==
    IF str_startswith(value, CustomPrefix)
    THEN dict_set(EmptyDict, "custom_value",
                  SubSeq(value, Len(CustomPrefix) + 1, Len(value)))
    ELSE LET matched == match_category(sads_key, value, theme)
         IN IF matched # EmptyDict THEN matched ELSE fallback_value(sads_key, value)

\* whether `if attr_value_dict:` takes the else branch, which prints the
\* "Could not determine value type" warning
undetermined(attr_value_dict) == attr_value_dict = EmptyDict

\* the value assigned to attributes_map[sads_key]
stored_value(attr_value_dict, value) ==
    IF ~undetermined(attr_value_dict)
    THEN attr_value_dict
    ELSE dict_set(EmptyDict, "custom_value", value)

(***************************************************************************)
(* The two places of the loop body where an exception could leave the      *)
(* function: the subscript parts[1], which raises IndexError unless the    *)
(* split gave two parts, and the membership tests on theme_context, which  *)
(* raise TypeError on None.                                                *)
(***************************************************************************)
\* parts[1] is reached, past both `continue`s, with fewer than two parts
raises_index_error(attr) ==
    ~is_blank(attr) /\ ~is_malformed(attr) /\ Len(parts_of(attr)) < 2

\* `"colors" in theme_context` is reached with theme_context None
raises_type_error(value, theme) ==
    ~str_startswith(value, CustomPrefix) /\ theme_truthy(theme) /\ theme.none

(***************************************************************************)
(* The whole call as a function of its arguments: the loop over the        *)
(* fragments, folding the accepted ones into attributes_map.               *)
(***************************************************************************)
\* attributes_map after the body of the for loop has run on attr
loop_body(attributes_map, attr, theme) ==
    IF is_blank(attr) \/ is_malformed(attr) \/ is_non_sads(attr)
    THEN attributes_map
    ELSE dict_set(attributes_map, sads_key_of(attr),
                  stored_value(classify(sads_key_of(attr), value_of(attr), theme),
                               value_of(attr)))

RECURSIVE parse_loop(_, _, _, _)
parse_loop(raw, k, attributes_map, theme) ==
    IF k > Len(raw)
    THEN attributes_map
    ELSE parse_loop(raw, k + 1, loop_body(attributes_map, raw[k], theme), theme)

\* the "attributes" entry of the dict the function returns
parse_llm_sads_string_to_dict(s, theme) ==
    IF s = << >>
    THEN EmptyDict
    ELSE parse_loop(split_attributes(s), 1, EmptyDict, theme)

(***************************************************************************)
(* The arguments the model draws.  An input string is pieces joined by     *)
(* single spaces; a piece is a well-formed declaration                     *)
(* data-sads-<name>="<value>", a malformed fragment, white space, or the   *)
(* empty string (which gives leading, trailing and repeated spaces).  The  *)
(* inputs are every single piece of Pieces, with every theme of Themes,    *)
(* and every sequence of up to MaxFrags pieces of LoopPieces, with every   *)
(* theme of LoopThemes.                                                    *)
(***************************************************************************)
MaxFrags == 3

NamePadding == <<"p", "a", "d", "d", "i", "n", "g">>

NameFontWeightKebab == <<"f", "o", "n", "t", "-", "w", "e", "i", "g", "h", "t">>

NameFontWeightCamel == <<"f", "o", "n", "t", "W", "e", "i", "g", "h", "t">>

Names ==
    { <<"b", "g", "C", "o", "l", "o", "r">>,
      NamePadding,
      <<"b", "g", "-", "p", "a", "d", "d", "i", "n", "g">>,
      <<"B", "G", "-", "c", "o", "l", "o", "r">>,
      <<"f", "o", "n", "t", "-", "S", "I", "Z", "E">>,
      NameFontWeightKebab,
      NameFontWeightCamel,
      <<"b", "o", "r", "d", "e", "r", "R", "a", "d", "i", "u", "s">>,
      <<"t", "e", "x", "t", "A", "l", "i", "g", "n">>,
      << >> }

TokenM == <<"m">>

ValueHuge == <<"h", "u", "g", "e">>

TokenKebab == <<"a", "-", "b">>

TokenSnake == <<"a", "_", "b">>

Values ==
    { TokenM,
      <<"M">>,
      TokenKebab,
      <<"c", "u", "s", "t", "o", "m", ":", "m">>,
      ValueHuge }

Declaration(name, value) ==
    DataSadsPrefix \o name \o <<"=", "\"">> \o value \o <<"\"">>

PieceTab == <<"\t">>

PieceNoEquals ==
    <<"d", "a", "t", "a", "-", "s", "a", "d", "s", "-", "o", "p", "a", "c", "i",
      "t", "y">>

PieceNonSads == <<"c", "l", "a", "s", "s", "=", "\"", "m", "\"">>

PieceUnquoted ==
    <<"d", "a", "t", "a", "-", "s", "a", "d", "s", "-", "p", "a", "d", "d", "i",
      "n", "g", "=", "m">>

\* the example of the prompt: data-sads-border="custom:1px solid #CCC"
PieceSpacedValue ==
    <<"d", "a", "t", "a", "-", "s", "a", "d", "s", "-", "b", "o", "r", "d", "e",
      "r", "=", "\"", "c", "u", "s", "t", "o", "m", ":", "1", "p", "x", " ", "s",
      "o", "l", "i", "d", " ", "#", "C", "C", "C", "\"">>

\* names of the generic CSS properties, textAlign being one of Names
GenericNames ==
    { <<"d", "i", "s", "p", "l", "a", "y">>,
      <<"p", "o", "s", "i", "t", "i", "o", "n">>,
      <<"o", "v", "e", "r", "f", "l", "o", "w">>,
      <<"c", "u", "r", "s", "o", "r">>,
      <<"t", "r", "a", "n", "s", "i", "t", "i", "o", "n">>,
      <<"b", "o", "x", "S", "i", "z", "i", "n", "g">>,
      <<"r", "e", "s", "i", "z", "e">> }

GenericPieces ==
    {Declaration(n, v) : n \in GenericNames,
                         v \in {TokenM, <<"c", "u", "s", "t", "o", "m", ":", "m">>}}

Pieces ==
    {Declaration(n, v) : n \in Names, v \in Values}
        \cup {PieceTab, PieceNoEquals, PieceNonSads, PieceUnquoted, PieceSpacedValue}
        \cup GenericPieces

LoopPieces ==
    { Declaration(NamePadding, TokenM),
      Declaration(NamePadding, ValueHuge),
      Declaration(NameFontWeightKebab, TokenM),
      Declaration(NameFontWeightCamel, ValueHuge),
      << >>,
      PieceTab,
      PieceNoEquals,
      PieceNonSads }

\* " ".join(pieces)
RECURSIVE JoinSpace(_)
JoinSpace(pieces) ==
    IF pieces = << >> THEN << >>
    ELSE IF Len(pieces) = 1 THEN pieces[1]
    ELSE pieces[1] \o <<" ">> \o JoinSpace(Tail(pieces))

LoopInputs == {JoinSpace(ps) : ps \in UNION {[1..n -> LoopPieces] : n \in 0..MaxFrags}}

ThemeOf(d) == [none |-> FALSE, dict |-> d]

ThemeNone == [none |-> TRUE, dict |-> EmptyDict]

ThemeFull ==
    ThemeOf([c \in {"colors", "spacing", "fontSize", "fontWeight", "borderRadius",
                    "shadow"} |-> {TokenM}])

\* a theme whose token names differ only in case, or only in "-" and "_"
ThemeCollide ==
    ThemeOf([c \in {"colors"} |-> {TokenM, <<"M">>, TokenKebab, TokenSnake}])

Themes ==
    { ThemeNone,
      ThemeOf(EmptyDict),
      ThemeFull,
      ThemeOf([c \in {"spacing", "fontSize", "fontWeight", "borderRadius"} |-> {TokenM}]),
      ThemeOf([c \in {"colors", "spacing"} |-> {TokenM}]),
      ThemeOf([c \in {"colors", "spacing", "borderRadius"} |->
                  IF c = "colors" THEN {} ELSE {TokenM}]),
      ThemeOf([c \in {"fontSize", "fontWeight"} |-> {TokenM}]),
      ThemeOf([c \in {"shadow"} |-> {TokenM}]),
      ThemeCollide }

LoopThemes == {ThemeNone, ThemeFull, ThemeOf([c \in {"spacing"} |-> {TokenM}])}

(***************************************************************************)
(* construct_llm_prompt: the block of theme tokens it writes into the      *)
(* prompt.  The theme of the model keeps the keys of each dict only, so    *)
(* x_map.keys() is the category's token names in the order KeyOrder, the   *)
(* order in which the dicts of the model's themes are written.             *)
(***************************************************************************)
KeyOrder == << TokenM, <<"M">>, TokenKebab, TokenSnake >>

ColorsLabel ==
    <<"-", " ", "A", "v", "a", "i", "l", "a", "b", "l", "e", " ", "c", "o",
      "l", "o", "r", " ", "t", "o", "k", "e", "n", "s", " ", "(", "f", "o",
      "r", " ", "b", "g", "C", "o", "l", "o", "r", ",", " ", "t", "e", "x",
      "t", "C", "o", "l", "o", "r", ",", " ", "b", "o", "r", "d", "e", "r",
      "C", "o", "l", "o", "r", ",", " ", "e", "t", "c", ".", ")", ":", " ">>

SpacingLabel ==
    <<"-", " ", "A", "v", "a", "i", "l", "a", "b", "l", "e", " ", "s", "p",
      "a", "c", "i", "n", "g", " ", "t", "o", "k", "e", "n", "s", " ", "(",
      "f", "o", "r", " ", "p", "a", "d", "d", "i", "n", "g", ",", " ", "m",
      "a", "r", "g", "i", "n", ",", " ", "g", "a", "p", ",", " ", "e", "t",
      "c", ".", ")", ":", " ">>

FontSizeLabel ==
    <<"-", " ", "A", "v", "a", "i", "l", "a", "b", "l", "e", " ", "f", "o",
      "n", "t", "S", "i", "z", "e", " ", "t", "o", "k", "e", "n", "s", ":",
      " ">>

FontWeightLabel ==
    <<"-", " ", "A", "v", "a", "i", "l", "a", "b", "l", "e", " ", "f", "o",
      "n", "t", "W", "e", "i", "g", "h", "t", " ", "t", "o", "k", "e", "n",
      "s", ":", " ">>

BorderRadiusLabel ==
    <<"-", " ", "A", "v", "a", "i", "l", "a", "b", "l", "e", " ", "b", "o",
      "r", "d", "e", "r", "R", "a", "d", "i", "u", "s", " ", "t", "o", "k",
      "e", "n", "s", ":", " ">>

ShadowLabel ==
    <<"-", " ", "A", "v", "a", "i", "l", "a", "b", "l", "e", " ", "s", "h",
      "a", "d", "o", "w", " ", "t", "o", "k", "e", "n", "s", ":", " ">>

TokensHeader ==
    <<"A", "v", "a", "i", "l", "a", "b", "l", "e", " ", "S", "A", "D", "S",
      " ", "t", "h", "e", "m", "e", " ", "t", "o", "k", "e", "n", "s", ":",
      "\n">>

NoTokensSentence ==
    <<"N", "o", " ", "s", "p", "e", "c", "i", "f", "i", "c", " ", "S", "A",
      "D", "S", " ", "t", "h", "e", "m", "e", " ", "t", "o", "k", "e", "n",
      "s", " ", "p", "r", "o", "v", "i", "d", "e", "d", " ", "f", "o", "r",
      " ", "d", "i", "s", "c", "r", "e", "t", "e", " ", "v", "a", "l", "u",
      "e", "s", ";", " ", "u", "s", "e", " ", "g", "e", "n", "e", "r", "a",
      "l", " ", "S", "A", "D", "S", " ", "k", "n", "o", "w", "l", "e", "d",
      "g", "e", " ", "a", "n", "d", " ", "c", "u", "s", "t", "o", "m", " ",
      "v", "a", "l", "u", "e", "s", " ", "w", "h", "e", "r", "e", " ", "a",
      "p", "p", "r", "o", "p", "r", "i", "a", "t", "e", " ", "f", "o", "r",
      " ", "t", "o", "k", "e", "n", "s", ".">>

\* mutant: the borderRadius block left out
PromptCategoriesWithoutBorderRadius ==
    <<"colors", "spacing", "fontSize", "fontWeight", "shadow">>

\* the categories in the order of the `if x_map:` blocks
PromptCategories ==
    <<"colors", "spacing", "fontSize", "fontWeight", "borderRadius", "shadow">>

\* the text before the names in the line of a category
line_label(category) ==
    CASE category = "colors" -> ColorsLabel
      [] category = "spacing" -> SpacingLabel
      [] category = "fontSize" -> FontSizeLabel
      [] category = "fontWeight" -> FontWeightLabel
      [] category = "borderRadius" -> BorderRadiusLabel
      [] category = "shadow" -> ShadowLabel

\* sep.join(parts)
RECURSIVE str_join_sep(_, _)
str_join_sep(sep, parts) ==
    IF parts = << >> THEN << >>
    ELSE IF Len(parts) = 1 THEN parts[1]
    ELSE parts[1] \o sep \o str_join_sep(sep, Tail(parts))

\* x_map.keys()
dict_keys(x_map) ==
    LET in_map(t) == t \in x_map
    IN SelectSeq(KeyOrder, in_map)

\* mutant: a category with an empty dict counts as present
category_truthy_when_present(theme, category) == category \in DOMAIN theme.dict

\* x_map = sads_theme_context.get(category); `if x_map:`
category_truthy(theme, category) ==
    category \in DOMAIN theme.dict /\ theme.dict[category] # {}

\* f"<label>{', '.join(x_map.keys())}"
context_line(theme, category) ==
    line_label(category) \o str_join_sep(<<",", " ">>, dict_keys(theme.dict[category]))

\* context_str_parts once the `if sads_theme_context:` block has run
context_str_parts_of(theme) ==
    IF ~theme_truthy(theme) THEN << >>
    ELSE LET truthy(category) == category_truthy(theme, category)
             present == SelectSeq(PromptCategories, truthy)
         IN [k \in 1..Len(present) |-> context_line(theme, present[k])]

\* sads_theme_context_str
sads_theme_context_str_of(parts) ==
    IF parts # << >>
    THEN TokensHeader \o str_join_sep(<<"\n">>, parts)
    ELSE NoTokensSentence

\* the prompt: its fixed sentences left out, it is the token block, the
\* token block again under SADS THEME CONTEXT, the snippet and the description
prompt_of(html, style, parts) ==
    [ theme_tokens |-> sads_theme_context_str_of(parts),
      theme_context_section |-> sads_theme_context_str_of(parts),
      html_snippet |-> html,
      style_prompt |-> style ]

construct_llm_prompt(html, style, theme) ==
    prompt_of(html, style, context_str_parts_of(theme))

(***************************************************************************)
(* The call as a state machine: one step per iteration of the for loop.    *)
(***************************************************************************)
VARIABLES
    sads_attributes_string, \* the argument
    theme_context,          \* the argument, of the parser and of the prompt
    pc,                     \* "call", "loop" or "done"; "idle" when not called
    raw_attributes,         \* the list the for loop runs over
    idx,                    \* the position of the loop in raw_attributes
    attributes_map,         \* the local dict
    stdout,                 \* the warnings printed, in order
    n_writes,               \* history: how many times attributes_map was assigned into
    result,                 \* the returned dict's "attributes", once returned
    html_snippet,           \* the argument of construct_llm_prompt
    style_prompt,           \* the argument of construct_llm_prompt
    prompt_pc,              \* "call", "categories", "build" or "done"; "idle"
    category_idx,           \* which `if x_map:` block of the prompt comes next
    context_str_parts,      \* the local list of lines
    prompt,                 \* the returned prompt, once returned
    earlier,                \* history: what the earlier calls with these arguments returned
    invocations,            \* the frames of the concurrent calls of the parser
    main_frame,             \* generate_sads_attributes.main: its locals and its environment
    bundler,                \* DefaultAssetBundler: a call's locals and the file system it sees
    data,                   \* JsonProtoDataLoader and InMemoryDataCache: locals, files, cache
    hero,                   \* HeroHtmlGenerator.generate_html: its argument and its locals
    build                   \* build.main: its locals and the files it has written

vars ==
    << sads_attributes_string, theme_context, pc, raw_attributes, idx,
       attributes_map, stdout, n_writes, result, html_snippet, style_prompt,
       prompt_pc, category_idx, context_str_parts, prompt, earlier, invocations,
       main_frame, bundler, data, hero, build >>

\* the frames of the build tools, which the attribute engine never touches
build_tools == << bundler, data, hero, build >>

\* a frame that is not in a call
Idle == [pc |-> "idle"]

BuildToolsIdle == bundler = Idle /\ data = Idle /\ hero = Idle /\ build = Idle

args == << sads_attributes_string, theme_context >>

prompt_args == << html_snippet, style_prompt >>

\* what a step of the parser does not touch
beside_parser ==
    << prompt_args, prompt_pc, category_idx, context_str_parts, prompt, earlier,
       invocations, main_frame, build_tools >>

\* what a step of construct_llm_prompt does not touch
beside_prompt ==
    << args, pc, raw_attributes, idx, attributes_map, stdout, n_writes, result,
       earlier, invocations, main_frame, build_tools >>

NoPrompt == [ theme_tokens |-> << >>, theme_context_section |-> << >>,
              html_snippet |-> << >>, style_prompt |-> << >> ]

\* the frame of the parser at its first line
ParserAtCall ==
    /\ pc = "call"
    /\ raw_attributes = << >>
    /\ idx = 0
    /\ attributes_map = EmptyDict
    /\ stdout = << >>
    /\ n_writes = 0
    /\ result = EmptyDict

ParserIdle ==
    /\ sads_attributes_string = << >>
    /\ pc = "idle"
    /\ raw_attributes = << >>
    /\ idx = 0
    /\ attributes_map = EmptyDict
    /\ stdout = << >>
    /\ n_writes = 0
    /\ result = EmptyDict

\* the frame of construct_llm_prompt at its first line
PromptAtCall ==
    /\ prompt_pc = "call"
    /\ category_idx = 0
    /\ context_str_parts = << >>
    /\ prompt = NoPrompt

PromptIdle ==
    /\ html_snippet = << >>
    /\ style_prompt = << >>
    /\ prompt_pc = "idle"
    /\ category_idx = 0
    /\ context_str_parts = << >>
    /\ prompt = NoPrompt

Init ==
    /\ \/ sads_attributes_string \in Pieces /\ theme_context \in Themes
       \/ sads_attributes_string \in LoopInputs /\ theme_context \in LoopThemes
    /\ ParserAtCall
    /\ PromptIdle
    /\ earlier = << >>
    /\ invocations = << >>
    /\ main_frame = Idle
    /\ BuildToolsIdle

\* `if not sads_attributes_string: return {"attributes": {}}`
ReturnEmpty ==
    /\ pc = "call"
    /\ sads_attributes_string = << >>
    /\ result' = EmptyDict
    /\ pc' = "done"
    /\ UNCHANGED << args, raw_attributes, idx, attributes_map, stdout, n_writes >>
    /\ UNCHANGED beside_parser

\* attributes_map = {}; raw_attributes = ....strip().split(" ")
SplitAttributes ==
    /\ pc = "call"
    /\ sads_attributes_string # << >>
    /\ attributes_map' = EmptyDict
    /\ raw_attributes' = split_attributes(sads_attributes_string)
    /\ idx' = 1
    /\ pc' = "loop"
    /\ UNCHANGED << args, stdout, n_writes, result >>
    /\ UNCHANGED beside_parser

InLoop == pc = "loop" /\ idx <= Len(raw_attributes)

\* `if not attr.strip(): continue`
SkipBlank ==
    /\ InLoop
    /\ is_blank(raw_attributes[idx])
    /\ idx' = idx + 1
    /\ UNCHANGED << args, pc, raw_attributes, attributes_map, stdout, n_writes, result >>
    /\ UNCHANGED beside_parser

\* `if len(parts) != 2: print(...); continue`
SkipMalformed ==
    /\ InLoop
    /\ ~is_blank(raw_attributes[idx])
    /\ is_malformed(raw_attributes[idx])
    /\ stdout' = Append(stdout, << "Skipping malformed attribute", raw_attributes[idx] >>)
    /\ idx' = idx + 1
    /\ UNCHANGED << args, pc, raw_attributes, attributes_map, n_writes, result >>
    /\ UNCHANGED beside_parser

\* `if not full_key.startswith("data-sads-"): print(...); continue`
SkipNonSads ==
    /\ InLoop
    /\ ~is_blank(raw_attributes[idx])
    /\ ~is_malformed(raw_attributes[idx])
    /\ is_non_sads(raw_attributes[idx])
    /\ stdout' = Append(stdout, << "Skipping non-SADS attribute", raw_attributes[idx] >>)
    /\ idx' = idx + 1
    /\ UNCHANGED << args, pc, raw_attributes, attributes_map, n_writes, result >>
    /\ UNCHANGED beside_parser

\* mutant: the loop body also registers the value in the theme's spacing dict
StoreAttributeRegisteringValue ==
    /\ InLoop
    /\ ~is_blank(raw_attributes[idx])
    /\ ~is_malformed(raw_attributes[idx])
    /\ ~is_non_sads(raw_attributes[idx])
    /\ LET attr == raw_attributes[idx]
           sads_key == sads_key_of(attr)
           value == value_of(attr)
           attr_value_dict == classify(sads_key, value, theme_context)
       IN /\ attributes_map' =
                dict_set(attributes_map, sads_key, stored_value(attr_value_dict, value))
          /\ stdout' =
                IF undetermined(attr_value_dict)
                THEN Append(stdout, << "Could not determine value type", sads_key >>)
                ELSE stdout
          /\ theme_context' =
                IF "spacing" \in DOMAIN theme_context.dict
                THEN ThemeOf(dict_set(theme_context.dict, "spacing",
                                      theme_context.dict["spacing"] \cup {value}))
                ELSE theme_context
    /\ n_writes' = n_writes + 1
    /\ idx' = idx + 1
    /\ UNCHANGED << sads_attributes_string, pc, raw_attributes, result >>
    /\ UNCHANGED beside_parser

\* the rest of the loop body: normalize the key, classify, store
StoreAttribute ==
    /\ InLoop
    /\ ~is_blank(raw_attributes[idx])
    /\ ~is_malformed(raw_attributes[idx])
    /\ ~is_non_sads(raw_attributes[idx])
    /\ LET attr == raw_attributes[idx]
           sads_key == sads_key_of(attr)
           value == value_of(attr)
           attr_value_dict == classify(sads_key, value, theme_context)
       IN /\ attributes_map' =
                dict_set(attributes_map, sads_key, stored_value(attr_value_dict, value))
          /\ stdout' =
                IF undetermined(attr_value_dict)
                THEN Append(stdout, << "Could not determine value type", sads_key >>)
                ELSE stdout
    /\ n_writes' = n_writes + 1
    /\ idx' = idx + 1
    /\ UNCHANGED << args, pc, raw_attributes, result >>
    /\ UNCHANGED beside_parser

\* `return {"attributes": attributes_map}`
ReturnAttributes ==
    /\ pc = "loop"
    /\ idx > Len(raw_attributes)
    /\ result' = attributes_map
    /\ pc' = "done"
    /\ UNCHANGED << args, raw_attributes, idx, attributes_map, stdout, n_writes >>
    /\ UNCHANGED beside_parser

Next ==
    \/ ReturnEmpty
    \/ SplitAttributes
    \/ SkipBlank
    \/ SkipMalformed
    \/ SkipNonSads
    \/ StoreAttribute
    \/ ReturnAttributes

Spec == Init /\ [][Next]_vars

\* the state machine returns what the function computes
ResultIsParse ==
    pc = "done" =>
        result = parse_llm_sads_string_to_dict(sads_attributes_string, theme_context)

(***************************************************************************)
(* construct_llm_prompt as a state machine: one step per `if x_map:`       *)
(* block, then the step that builds the prompt.  An empty dict given as a  *)
(* category is falsy, like an absent category.                             *)
(***************************************************************************)
HtmlSnippets == { << >>, <<"<", "p", ">", "<", "/", "p", ">">> }

StylePrompts == { <<"b", "o", "l", "d">> }

PromptNames == {TokenM, TokenKebab}

\* every theme that gives each of the six categories no dict, an empty dict
\* or a dict of two names; None; and a dict with another key only
PromptThemes ==
    { ThemeOf([c \in {x \in DOMAIN f : f[x] # "absent"} |->
                  IF f[c] = "empty" THEN {} ELSE PromptNames]) :
        f \in [{PromptCategories[k] : k \in 1..Len(PromptCategories)}
                 -> {"absent", "empty", "names"}] }
        \cup {ThemeNone, ThemeOf([c \in {"sadsPropertiesReference"} |-> {TokenM}])}

InitPrompt ==
    /\ theme_context \in PromptThemes
    /\ html_snippet \in HtmlSnippets
    /\ style_prompt \in StylePrompts
    /\ PromptAtCall
    /\ ParserIdle
    /\ earlier = << >>
    /\ invocations = << >>
    /\ main_frame = Idle
    /\ BuildToolsIdle

\* context_str_parts = []; `if sads_theme_context:` is false
NoThemeBlock ==
    /\ prompt_pc = "call"
    /\ ~theme_truthy(theme_context)
    /\ context_str_parts' = << >>
    /\ prompt_pc' = "build"
    /\ UNCHANGED << prompt_args, category_idx, prompt >>
    /\ UNCHANGED beside_prompt

\* context_str_parts = []; `if sads_theme_context:` is true
EnterThemeBlock ==
    /\ prompt_pc = "call"
    /\ theme_truthy(theme_context)
    /\ context_str_parts' = << >>
    /\ category_idx' = 1
    /\ prompt_pc' = "categories"
    /\ UNCHANGED << prompt_args, prompt >>
    /\ UNCHANGED beside_prompt

InCategories == prompt_pc = "categories" /\ category_idx <= Len(PromptCategories)

\* `if x_map:` is true: context_str_parts.append(f"...")
AppendLine ==
    /\ InCategories
    /\ category_truthy(theme_context, PromptCategories[category_idx])
    /\ context_str_parts' =
          Append(context_str_parts,
                 context_line(theme_context, PromptCategories[category_idx]))
    /\ category_idx' = category_idx + 1
    /\ UNCHANGED << prompt_args, prompt_pc, prompt >>
    /\ UNCHANGED beside_prompt

\* `if x_map:` is false
OmitLine ==
    /\ InCategories
    /\ ~category_truthy(theme_context, PromptCategories[category_idx])
    /\ category_idx' = category_idx + 1
    /\ UNCHANGED << prompt_args, prompt_pc, context_str_parts, prompt >>
    /\ UNCHANGED beside_prompt

\* sads_theme_context_str = ...; prompt = ...; return prompt
BuildPrompt ==
    /\ \/ prompt_pc = "build"
       \/ prompt_pc = "categories" /\ category_idx > Len(PromptCategories)
    /\ prompt' = prompt_of(html_snippet, style_prompt, context_str_parts)
    /\ prompt_pc' = "done"
    /\ UNCHANGED << prompt_args, category_idx, context_str_parts >>
    /\ UNCHANGED beside_prompt

NextPrompt ==
    \/ NoThemeBlock
    \/ EnterThemeBlock
    \/ AppendLine
    \/ OmitLine
    \/ BuildPrompt

SpecPrompt == InitPrompt /\ [][NextPrompt]_vars

\* the state machine returns what the function computes
PromptIsFunction ==
    prompt_pc = "done" =>
        prompt = construct_llm_prompt(html_snippet, style_prompt, theme_context)

(***************************************************************************)
(* The caller: as main does, it builds the prompt and then parses, with    *)
(* one theme object; here it does so MaxCalls times with equal arguments,  *)
(* and earlier keeps what the calls before the current ones returned.      *)
(***************************************************************************)
MaxCalls == 2

CallInputs == Pieces \cup { << >>, JoinSpace(<< PieceNonSads, PieceNoEquals >>) }

InitCalls ==
    /\ sads_attributes_string \in CallInputs
    /\ theme_context \in Themes
    /\ html_snippet \in HtmlSnippets
    /\ style_prompt \in StylePrompts
    /\ ParserAtCall
    /\ PromptAtCall
    /\ earlier = << >>
    /\ invocations = << >>
    /\ main_frame = Idle
    /\ BuildToolsIdle

\* construct_llm_prompt(...) runs
PromptRuns == NextPrompt

\* parse_llm_sads_string_to_dict(...) runs, once the prompt was returned
ParserRuns == prompt_pc = "done" /\ Next

\* both have returned: the caller calls both again, with the same arguments
CallAgain ==
    /\ prompt_pc = "done"
    /\ pc = "done"
    /\ Len(earlier) + 1 < MaxCalls
    /\ earlier' = Append(earlier, [attributes |-> result, prompt |-> prompt])
    /\ prompt_pc' = "call"
    /\ category_idx' = 0
    /\ context_str_parts' = << >>
    /\ prompt' = NoPrompt
    /\ pc' = "call"
    /\ raw_attributes' = << >>
    /\ idx' = 0
    /\ attributes_map' = EmptyDict
    /\ n_writes' = 0
    /\ result' = EmptyDict
    /\ UNCHANGED << args, prompt_args, stdout, invocations, main_frame, build_tools >>

NextCalls ==
    \/ PromptRuns
    \/ ParserRuns
    \/ CallAgain

SpecCalls == InitCalls /\ [][NextCalls]_vars

(***************************************************************************)
(* Concurrent calls of the parser, one frame each.  A frame holds the      *)
(* call's argument and its locals; theme_context is the one object all the *)
(* calls were given, and stdout is the one stream they all print to.  The  *)
(* calls are interleaved between iterations of their loops.                *)
(***************************************************************************)
MaxInvocations == 2

ConcInputs ==
    { << >>,
      Declaration(NamePadding, TokenM),
      JoinSpace(<< Declaration(NamePadding, ValueHuge), Declaration(NamePadding, TokenM) >>),
      JoinSpace(<< PieceNoEquals, Declaration(NameFontWeightCamel, ValueHuge) >>),
      PieceNonSads }

ConcThemes == {ThemeNone, ThemeFull}

frame_at_call(s) ==
    [ sads_attributes_string |-> s, pc |-> "call", raw_attributes |-> << >>,
      idx |-> 0, attributes_map |-> EmptyDict, result |-> EmptyDict ]

InitConc ==
    /\ theme_context \in ConcThemes
    /\ invocations \in [1..MaxInvocations -> {frame_at_call(s) : s \in ConcInputs}]
    /\ ParserIdle
    /\ PromptIdle
    /\ earlier = << >>
    /\ main_frame = Idle
    /\ BuildToolsIdle

\* mutant: attributes_map is one module-level dict, the one of the first frame
shared_map(frames, p) == frames[1].attributes_map

\* the local attributes_map of the call p
own_map(frames, p) == frames[p].attributes_map

\* what one pass of the loop body on attr prints
warnings_of(attr, theme) ==
    IF is_blank(attr) THEN << >>
    ELSE IF is_malformed(attr) THEN << << "Skipping malformed attribute", attr >> >>
    ELSE IF is_non_sads(attr) THEN << << "Skipping non-SADS attribute", attr >> >>
    ELSE IF undetermined(classify(sads_key_of(attr), value_of(attr), theme))
    THEN << << "Could not determine value type", sads_key_of(attr) >> >>
    ELSE << >>

\* what a step of a concurrent call does not touch
beside_invocations ==
    << args, pc, raw_attributes, idx, attributes_map, n_writes, result, prompt_args,
       prompt_pc, category_idx, context_str_parts, prompt, earlier, main_frame,
       build_tools >>

\* `if not sads_attributes_string: return {"attributes": {}}`
InvocationReturnsEmpty(p) ==
    /\ invocations[p].pc = "call"
    /\ invocations[p].sads_attributes_string = << >>
    /\ invocations' = [invocations EXCEPT ![p].pc = "done", ![p].result = EmptyDict]
    /\ UNCHANGED << stdout, beside_invocations >>

\* attributes_map = {}; raw_attributes = ....strip().split(" ")
InvocationSplits(p) ==
    /\ invocations[p].pc = "call"
    /\ invocations[p].sads_attributes_string # << >>
    /\ invocations' =
          [invocations EXCEPT
              ![p].attributes_map = EmptyDict,
              ![p].raw_attributes = split_attributes(invocations[p].sads_attributes_string),
              ![p].idx = 1,
              ![p].pc = "loop"]
    /\ UNCHANGED << stdout, beside_invocations >>

\* one iteration of the for loop
InvocationLoopBody(p) ==
    /\ invocations[p].pc = "loop"
    /\ invocations[p].idx <= Len(invocations[p].raw_attributes)
    /\ LET attr == invocations[p].raw_attributes[invocations[p].idx]
       IN /\ invocations' =
                [invocations EXCEPT
                    ![p].attributes_map =
                        loop_body(own_map(invocations, p), attr, theme_context),
                    ![p].idx = invocations[p].idx + 1]
          /\ stdout' = stdout \o warnings_of(attr, theme_context)
    /\ UNCHANGED beside_invocations

\* `return {"attributes": attributes_map}`
InvocationReturns(p) ==
    /\ invocations[p].pc = "loop"
    /\ invocations[p].idx > Len(invocations[p].raw_attributes)
    /\ invocations' =
          [invocations EXCEPT ![p].result = own_map(invocations, p), ![p].pc = "done"]
    /\ UNCHANGED << stdout, beside_invocations >>

NextConc ==
    \/ \E p \in DOMAIN invocations : InvocationReturnsEmpty(p)
    \/ \E p \in DOMAIN invocations : InvocationSplits(p)
    \/ \E p \in DOMAIN invocations : InvocationLoopBody(p)
    \/ \E p \in DOMAIN invocations : InvocationReturns(p)

SpecConc == InitConc /\ [][NextConc]_vars

(***************************************************************************)
(* generate_sads_attributes.main.  Its environment is drawn at the start:  *)
(* the provider, whether the provider's API key is set, whether the HTML   *)
(* file exists, and what the theme file is; the answer of the LLM is drawn *)
(* when it is asked.  An Optional[str] is a record: None, or a text.  The  *)
(* test `if not api_key` of line 234 cannot be true where it stands and    *)
(* has no step.                                                            *)
(***************************************************************************)
NoneValue == [none |-> TRUE, text |-> << >>]

Str(text) == [none |-> FALSE, text |-> text]

\* str(x): the text, or "None" for None
py_str(x) == IF x.none THEN <<"N", "o", "n", "e">> ELSE x.text

\* mutant: `if x is not None`
is_not_none(x) == ~x.none

\* `if x:` on an Optional[str]
truthy(x) == ~x.none /\ x.text # << >>

Providers == {"openai", "mistral", "other"}

HtmlFiles == {"found", "not_found"}

ThemeFiles == {"missing", "undecodable", "loaded"}

MainThemes == {ThemeOf(EmptyDict), ThemeFull}

\* message.content of the first choice of the LLM's answer
LlmContents ==
    { NoneValue,
      Str(<< >>),
      Str(<<" ">>),
      Str(<<" ">> \o Declaration(NamePadding, TokenM) \o <<"\n">>),
      Str(PieceNoEquals) }

\* OpenAI: str(content), then `.strip() if response_content else None`
openai_response(content) ==
    IF py_str(content) # << >> THEN Str(str_strip(py_str(content))) ELSE NoneValue

\* Mistral: str(content).strip(), then `response_content if response_content else None`
mistral_response(content) ==
    IF str_strip(py_str(content)) # << >> THEN Str(str_strip(py_str(content))) ELSE NoneValue

InitMain ==
    /\ main_frame \in
          [ pc : {"start"},
            provider : Providers,
            key_set : BOOLEAN,
            html_file : HtmlFiles,
            theme_file : ThemeFiles,
            theme : MainThemes,
            html_snippet : {<<"<", "p", ">", "<", "/", "p", ">">>},
            style_prompt : StylePrompts,
            sads_theme_context : {ThemeNone},
            llm_prompt : {NoPrompt},
            generated_attributes_string : {NoneValue} ]
    /\ theme_context = ThemeNone
    /\ ParserIdle
    /\ PromptIdle
    /\ earlier = << >>
    /\ invocations = << >>
    /\ BuildToolsIdle

\* what a step of main before the call of the parser does not touch
beside_main ==
    << args, pc, raw_attributes, idx, attributes_map, n_writes, result, prompt_args,
       prompt_pc, category_idx, context_str_parts, prompt, earlier, invocations,
       build_tools >>

MainAt(place) == main_frame # Idle /\ main_frame.pc = place

MainReturns(message) ==
    /\ main_frame' = [main_frame EXCEPT !.pc = "returned"]
    /\ stdout' = Append(stdout, << message >>)
    /\ UNCHANGED beside_main

\* the provider is unknown, or its key is not in the environment: print, return
ApiKeyMissing ==
    /\ MainAt("start")
    /\ main_frame.provider = "other" \/ ~main_frame.key_set
    /\ MainReturns("Error: API key")

ApiKeyLoaded ==
    /\ MainAt("start")
    /\ main_frame.provider # "other" /\ main_frame.key_set
    /\ main_frame' = [main_frame EXCEPT !.pc = "read_html"]
    /\ UNCHANGED << stdout, beside_main >>

\* open(args.html_file) raises FileNotFoundError: print, return
HtmlFileNotFound ==
    /\ MainAt("read_html")
    /\ main_frame.html_file = "not_found"
    /\ MainReturns("Error: HTML snippet file not found")

HtmlFileRead ==
    /\ MainAt("read_html")
    /\ main_frame.html_file = "found"
    /\ main_frame' = [main_frame EXCEPT !.pc = "load_theme"]
    /\ UNCHANGED << stdout, beside_main >>

\* load_sads_theme_context prints and returns None; main returns
ThemeNotLoaded ==
    /\ MainAt("load_theme")
    /\ main_frame.theme_file # "loaded"
    /\ MainReturns(IF main_frame.theme_file = "missing"
                   THEN "Error: SADS theme context file not found"
                   ELSE "Error: Could not decode JSON")

\* the theme is loaded and the prompt is built
ThemeLoaded ==
    /\ MainAt("load_theme")
    /\ main_frame.theme_file = "loaded"
    /\ main_frame' =
          [main_frame EXCEPT
              !.sads_theme_context = main_frame.theme,
              !.llm_prompt = construct_llm_prompt(main_frame.html_snippet,
                                                  main_frame.style_prompt,
                                                  main_frame.theme),
              !.pc = "query"]
    /\ stdout' = Append(stdout, << "--- Inputs to LLM ---" >>)
    /\ UNCHANGED beside_main

LlmReturns(value, printed) ==
    /\ main_frame' = [main_frame EXCEPT !.generated_attributes_string = value,
                                        !.pc = "response"]
    /\ stdout' = stdout \o printed
    /\ UNCHANGED beside_main

\* the API call raises: `except Exception`, print, return None
LlmCallRaises ==
    /\ MainAt("query")
    /\ LlmReturns(NoneValue, << << "Error calling API" >> >>)

\* the OpenAI API answers
OpenAiAnswers ==
    /\ MainAt("query")
    /\ main_frame.provider = "openai"
    /\ \E content \in LlmContents : LlmReturns(openai_response(content), << >>)

\* the Mistral API answers with a choice that has a message
MistralAnswers ==
    /\ MainAt("query")
    /\ main_frame.provider = "mistral"
    /\ \E content \in LlmContents : LlmReturns(mistral_response(content), << >>)

\* the Mistral API answers without choices: the `if` is false, the function
\* falls through to its last lines, prints "Unsupported LLM provider", returns None
MistralNoChoices ==
    /\ MainAt("query")
    /\ main_frame.provider = "mistral"
    /\ LlmReturns(NoneValue, << << "Error: Unsupported LLM provider" >> >>)

\* `if generated_attributes_string:` is false
NoAttributesGenerated ==
    /\ MainAt("response")
    /\ ~truthy(main_frame.generated_attributes_string)
    /\ MainReturns("No attributes generated or an error occurred.")

\* `if generated_attributes_string:` is true: print, and call the parser
InvokeParser ==
    /\ MainAt("response")
    /\ truthy(main_frame.generated_attributes_string)
    /\ main_frame' = [main_frame EXCEPT !.pc = "parsing"]
    /\ stdout' = Append(stdout, << "Generated SADS Attributes String:" >>)
    /\ sads_attributes_string' = py_str(main_frame.generated_attributes_string)
    /\ theme_context' = main_frame.sads_theme_context
    /\ pc' = "call"
    /\ UNCHANGED << raw_attributes, idx, attributes_map, n_writes, result, prompt_args,
                    prompt_pc, category_idx, context_str_parts, prompt, earlier,
                    invocations, build_tools >>

\* the parser runs
ParserRunsInMain == MainAt("parsing") /\ Next

\* the parser has returned: print its result, return
PrintParsed ==
    /\ MainAt("parsing")
    /\ pc = "done"
    /\ MainReturns("Parsed SADS Attributes (Conceptual Proto Structure):")

NextMain ==
    \/ ApiKeyMissing
    \/ ApiKeyLoaded
    \/ HtmlFileNotFound
    \/ HtmlFileRead
    \/ ThemeNotLoaded
    \/ ThemeLoaded
    \/ LlmCallRaises
    \/ OpenAiAnswers
    \/ MistralAnswers
    \/ MistralNoChoices
    \/ NoAttributesGenerated
    \/ InvokeParser
    \/ ParserRunsInMain
    \/ PrintParsed

SpecMain == InitMain /\ [][NextMain]_vars

(***************************************************************************)
(* The build tools (src/build_protocols).  Each tool keeps its call frame  *)
(* in one record; the attribute engine above stays idle while they run.    *)
(***************************************************************************)
engine_vars ==
    << args, pc, raw_attributes, idx, attributes_map, stdout, n_writes, result,
       prompt_args, prompt_pc, category_idx, context_str_parts, prompt, earlier,
       invocations, main_frame >>

EngineIdle ==
    /\ theme_context = ThemeNone
    /\ ParserIdle
    /\ PromptIdle
    /\ earlier = << >>
    /\ invocations = << >>
    /\ main_frame = Idle

(***************************************************************************)
(* DefaultAssetBundler.copy_wasm_assets                                    *)
(***************************************************************************)
SadsPocWasm == "sads_poc.wasm"

WasmExecJs == "wasm_exec.js"

\* what a file does when the method reaches it: os.path.exists is false, or
\* shutil.copy2 returns, or shutil.copy2 raises IOError
FileOutcomes == {"missing", "copied", "io_error"}

\* the file system and the Go installation, as the call finds them
WasmEnvironments ==
    [ go_env_goroot : BOOLEAN,
      sads_poc_wasm : FileOutcomes,
      goroot_wasm_exec : FileOutcomes,
      harness_copy : {"copied", "io_error"},
      fallback_wasm_exec : FileOutcomes ]

InitWasm ==
    /\ bundler \in
          [ pc : {"call"},
            env : WasmEnvironments,
            goroot : {FALSE},
            all_essential_copied : {TRUE},
            main_app : {{}},
            harness : {{}},
            printed : {<< >>},
            returned : {"nothing"} ]
    /\ data = Idle /\ hero = Idle /\ build = Idle
    /\ EngineIdle

beside_bundler == << engine_vars, data, hero, build >>

WasmAt(place) == bundler # Idle /\ bundler.pc = place

\* goroot = self._get_goroot(); None is only reported
GorootNotFound ==
    /\ WasmAt("call")
    /\ ~bundler.env.go_env_goroot
    /\ bundler' = [bundler EXCEPT !.pc = "sads_poc_wasm", !.goroot = FALSE,
                                  !.all_essential_copied = TRUE,
                                  !.printed = Append(@, "Critical: Could not determine GOROOT")]
    /\ UNCHANGED beside_bundler

GorootFound ==
    /\ WasmAt("call")
    /\ bundler.env.go_env_goroot
    /\ bundler' = [bundler EXCEPT !.pc = "sads_poc_wasm", !.goroot = TRUE,
                                  !.all_essential_copied = TRUE,
                                  !.printed = Append(@, "Using GOROOT")]
    /\ UNCHANGED beside_bundler

\* 1. sads_poc.wasm to the main application's wasm directory
SadsPocWasmCopied ==
    /\ WasmAt("sads_poc_wasm")
    /\ bundler.env.sads_poc_wasm = "copied"
    /\ bundler' = [bundler EXCEPT !.pc = "wasm_exec",
                                  !.main_app = @ \cup {SadsPocWasm},
                                  !.printed = Append(@, "Successfully copied sads_poc.wasm")]
    /\ UNCHANGED beside_bundler

SadsPocWasmCopyFails ==
    /\ WasmAt("sads_poc_wasm")
    /\ bundler.env.sads_poc_wasm = "io_error"
    /\ bundler' = [bundler EXCEPT !.pc = "wasm_exec",
                                  !.all_essential_copied = FALSE,
                                  !.printed = Append(@, "Error copying sads_poc.wasm")]
    /\ UNCHANGED beside_bundler

SadsPocWasmNotFound ==
    /\ WasmAt("sads_poc_wasm")
    /\ bundler.env.sads_poc_wasm = "missing"
    /\ bundler' = [bundler EXCEPT !.pc = "wasm_exec",
                                  !.all_essential_copied = FALSE,
                                  !.printed = Append(@, "Error: sads_poc.wasm not found")]
    /\ UNCHANGED beside_bundler

\* `wasm_exec_js_source_from_goroot and os.path.exists(...)`
wasm_exec_in_goroot(frame) ==
    frame.goroot /\ frame.env.goroot_wasm_exec # "missing"

\* 2. wasm_exec.js from GOROOT: to the harness directory (a failure is only
\* printed), then to the main application
WasmExecFromGoroot ==
    /\ WasmAt("wasm_exec")
    /\ wasm_exec_in_goroot(bundler)
    /\ bundler' =
          [bundler EXCEPT
              !.pc = "report",
              !.harness = IF bundler.env.harness_copy = "copied"
                          THEN @ \cup {WasmExecJs} ELSE @,
              !.main_app = IF bundler.env.goroot_wasm_exec = "copied"
                           THEN @ \cup {WasmExecJs} ELSE @,
              !.all_essential_copied =
                  IF bundler.env.goroot_wasm_exec = "copied" THEN @ ELSE FALSE,
              !.printed =
                  @ \o << IF bundler.env.harness_copy = "copied"
                          THEN "Successfully copied wasm_exec.js to sads_wasm_poc"
                          ELSE "Error copying wasm_exec.js to sads_wasm_poc",
                          IF bundler.env.goroot_wasm_exec = "copied"
                          THEN "Successfully copied wasm_exec.js"
                          ELSE "Error copying wasm_exec.js" >>]
    /\ UNCHANGED beside_bundler

\* the else branch: not in GOROOT, the copy in sads_wasm_poc is found and copied;
\* `all_essential_copied = True  # If fallback succeeds, consider it copied`
WasmExecFallbackCopied ==
    /\ WasmAt("wasm_exec")
    /\ ~wasm_exec_in_goroot(bundler)
    /\ bundler.env.fallback_wasm_exec = "copied"
    /\ bundler' =
          [bundler EXCEPT
              !.pc = "report",
              !.main_app = @ \cup {WasmExecJs},
              !.all_essential_copied = TRUE,
              !.printed = @ \o << "Error: wasm_exec.js not found in GOROOT",
                                  "Successfully copied (fallback)" >>]
    /\ UNCHANGED beside_bundler

WasmExecFallbackFails ==
    /\ WasmAt("wasm_exec")
    /\ ~wasm_exec_in_goroot(bundler)
    /\ bundler.env.fallback_wasm_exec = "io_error"
    /\ bundler' =
          [bundler EXCEPT
              !.pc = "report",
              !.all_essential_copied = FALSE,
              !.printed = @ \o << "Error: wasm_exec.js not found in GOROOT",
                                  "Error copying (fallback)" >>]
    /\ UNCHANGED beside_bundler

WasmExecNoFallback ==
    /\ WasmAt("wasm_exec")
    /\ ~wasm_exec_in_goroot(bundler)
    /\ bundler.env.fallback_wasm_exec = "missing"
    /\ bundler' =
          [bundler EXCEPT
              !.pc = "report",
              !.all_essential_copied = FALSE,
              !.printed = @ \o << "Error: wasm_exec.js not found in GOROOT",
                                  "wasm_exec.js also not found as a fallback" >>]
    /\ UNCHANGED beside_bundler

\* print the summary, return all_essential_copied
ReturnAllEssentialCopied ==
    /\ WasmAt("report")
    /\ bundler' =
          [bundler EXCEPT
              !.pc = "returned",
              !.returned = bundler.all_essential_copied,
              !.printed = Append(@, IF bundler.all_essential_copied
                                    THEN "All essential WASM assets processed"
                                    ELSE "Failed to process one or more essential WASM assets")]
    /\ UNCHANGED beside_bundler

NextWasm ==
    \/ GorootNotFound
    \/ GorootFound
    \/ SadsPocWasmCopied
    \/ SadsPocWasmCopyFails
    \/ SadsPocWasmNotFound
    \/ WasmExecFromGoroot
    \/ WasmExecFallbackCopied
    \/ WasmExecFallbackFails
    \/ WasmExecNoFallback
    \/ ReturnAllEssentialCopied

SpecWasm == InitWasm /\ [][NextWasm]_vars

(***************************************************************************)
(* DefaultAssetBundler.bundle_js                                           *)
(***************************************************************************)
\* os.path.join(directory, name), and os.path.basename of it
path_join(directory, name) == [dir |-> directory, base |-> name]

basename(path) == path.base

\* a message that names no file
NoPath == path_join("", "")

\* os.path.join(output_dir, "main.js")
MainJs == path_join("public/dist", "main.js")

CompiledTsDir == "public/js/compiled_ts"

ModulesDir == "public/js/modules"

SharedJsDir == "public/js"

shared_js_paths_ordered ==
    << path_join(CompiledTsDir, "sads-default-theme.js"),
       path_join(CompiledTsDir, "sads-style-engine.js"),
       path_join(CompiledTsDir, "nlToSadsInterface.js"),
       path_join(ModulesDir, "eventBus.js"),
       path_join(ModulesDir, "darkMode.js"),
       path_join(ModulesDir, "translation.js"),
       path_join(ModulesDir, "sadsManager.js"),
       path_join(SharedJsDir, "app.js"),
       path_join(SharedJsDir, "headerInteractions.js") >>

CriticalJs == {"app.js", "sads-style-engine.js", "sads-default-theme.js"}

\* templates/components/<name>/<name>.js
component_js(component_name) ==
    path_join("templates/components/" \o component_name, component_name \o ".js")

ComponentNames == {"hero", "header"}

\* os.listdir gives the directory's entries in an arbitrary order
Listings ==
    { << >> } \cup { << a >> : a \in ComponentNames }
              \cup { << a, b >> : a, b \in ComponentNames }

\* the files whose open(..., "r") may raise IOError although they exist
MaybeUnreadable ==
    { path_join(CompiledTsDir, "sads-default-theme.js"), component_js("hero") }

SharedPaths == { shared_js_paths_ordered[i] : i \in DOMAIN shared_js_paths_ordered }

BundleJsEnvironments ==
    [ components_dir : {TRUE},
      components : { l \in Listings : \A i, j \in DOMAIN l : l[i] = l[j] => i = j },
      existing : SUBSET SharedPaths,
      unreadable : SUBSET MaybeUnreadable,
      output : {"written", "io_error"} ]
    \cup
    [ components_dir : {FALSE},
      components : {<< >>},
      existing : {{}, SharedPaths},
      unreadable : {{}},
      output : {"written"} ]

NoFile == [header |-> "no file", blocks |-> << >>]

InitBundleJs ==
    /\ bundler \in
          [ pc : {"call"},
            env : BundleJsEnvironments,
            js_files_to_bundle : {<< >>},
            processed_shared_js : {<< >>},
            js_contents : {<< >>},
            main_js : {NoFile},
            printed : {<< >>},
            returned : {"nothing"} ]
    /\ data = Idle /\ hero = Idle /\ build = Idle
    /\ EngineIdle

BundleJsAt(place) == bundler # Idle /\ bundler.pc = place

\* [f(x) for x in xs]
seq_map(f(_), xs) == [i \in DOMAIN xs |-> f(xs[i])]

found_component_js(path) == [msg |-> "Found component JS", file |-> path]

\* 1. the loop over os.listdir(component_js_dir); the components given are
\* the directories that hold a <name>.js
ListComponents ==
    /\ BundleJsAt("call")
    /\ bundler.env.components_dir
    /\ bundler' =
          [bundler EXCEPT
              !.pc = "shared",
              !.js_files_to_bundle = seq_map(component_js, bundler.env.components),
              !.printed = << [msg |-> "Bundling JavaScript files...", file |-> NoPath] >>
                          \o seq_map(found_component_js,
                                     seq_map(component_js, bundler.env.components))]
    /\ UNCHANGED beside_bundler

\* os.listdir raises FileNotFoundError, which nothing catches
ListdirRaises ==
    /\ BundleJsAt("call")
    /\ ~bundler.env.components_dir
    /\ bundler' =
          [bundler EXCEPT
              !.pc = "raised",
              !.printed = << [msg |-> "Bundling JavaScript files...", file |-> NoPath] >>]
    /\ UNCHANGED beside_bundler

\* the message of one round of the loop over shared_js_paths_ordered
shared_js_message(existing, path) ==
    IF path \in existing
    THEN [msg |-> "Found JS", file |-> path]
    ELSE IF basename(path) \in CriticalJs
         THEN [msg |-> "ERROR: Critical JS file not found", file |-> path]
         ELSE [msg |-> "Warning: Optional JS file not found", file |-> path]

\* js_files_to_bundle = processed_shared_js + js_files_to_bundle, written the
\* other way round
components_before_shared(processed_shared_js, js_files_to_bundle) ==
    js_files_to_bundle \o processed_shared_js

prepend_shared(processed_shared_js, js_files_to_bundle) ==
    processed_shared_js \o js_files_to_bundle

\* 2. the loop over shared_js_paths_ordered, then the prepending
FindSharedJs ==
    /\ BundleJsAt("shared")
    /\ LET exists(path) == path \in bundler.env.existing
           message(path) == shared_js_message(bundler.env.existing, path)
           found == SelectSeq(shared_js_paths_ordered, exists)
       IN  bundler' =
              [bundler EXCEPT
                  !.pc = "decide",
                  !.processed_shared_js = found,
                  !.js_files_to_bundle = prepend_shared(found, @),
                  !.printed = @ \o seq_map(message, shared_js_paths_ordered)]
    /\ UNCHANGED beside_bundler

\* `if not js_files_to_bundle:` the one-line bundle
WriteEmptyBundle ==
    /\ BundleJsAt("decide")
    /\ bundler.js_files_to_bundle = << >>
    /\ bundler.env.output = "written"
    /\ bundler' =
          [bundler EXCEPT
              !.pc = "returned",
              !.main_js = [header |-> "// No JavaScript files found or bundled.",
                           blocks |-> << >>],
              !.printed = @ \o << [msg |-> "No JavaScript files found to bundle.", file |-> NoPath],
                                  [msg |-> "Created empty JS bundle", file |-> MainJs] >>,
              !.returned = "main.js"]
    /\ UNCHANGED beside_bundler

WriteEmptyBundleFails ==
    /\ BundleJsAt("decide")
    /\ bundler.js_files_to_bundle = << >>
    /\ bundler.env.output = "io_error"
    /\ bundler' =
          [bundler EXCEPT
              !.pc = "returned",
              !.printed = @ \o << [msg |-> "No JavaScript files found to bundle.", file |-> NoPath],
                                  [msg |-> "Error creating empty JS bundle", file |-> MainJs] >>,
              !.returned = "None"]
    /\ UNCHANGED beside_bundler

\* f.read() of a file
content_of(path) == [read_from |-> path]

error_reading(path) == [msg |-> "Error reading JS file", file |-> path]

\* the loop that reads: a file whose read raises IOError appends nothing
ReadSources ==
    /\ BundleJsAt("decide")
    /\ bundler.js_files_to_bundle # << >>
    /\ LET readable(path) == path \notin bundler.env.unreadable
           unreadable(path) == path \in bundler.env.unreadable
       IN  bundler' =
              [bundler EXCEPT
                  !.pc = "write",
                  !.js_contents =
                      seq_map(content_of, SelectSeq(bundler.js_files_to_bundle, readable)),
                  !.printed =
                      @ \o seq_map(error_reading,
                                   SelectSeq(bundler.js_files_to_bundle, unreadable))]
    /\ UNCHANGED beside_bundler

\* original_path = js_files_to_bundle[i]; os.path.basename(original_path)
label_of(js_files_to_bundle, js_contents, i) ==
    basename(js_files_to_bundle[i])

\* the loop over enumerate(js_contents)
blocks_of(js_files_to_bundle, js_contents) ==
    [ i \in DOMAIN js_contents |->
        [ source |-> label_of(js_files_to_bundle, js_contents, i),
          content |-> js_contents[i] ] ]

WriteBundle ==
    /\ BundleJsAt("write")
    /\ bundler.env.output = "written"
    /\ bundler' =
          [bundler EXCEPT
              !.pc = "returned",
              !.main_js = [header |-> "// --- JavaScript Bundle --- //",
                           blocks |-> blocks_of(bundler.js_files_to_bundle,
                                                bundler.js_contents)],
              !.printed = Append(@, [msg |-> "Successfully bundled JavaScript to",
                                     file |-> MainJs]),
              !.returned = "main.js"]
    /\ UNCHANGED beside_bundler

WriteBundleFails ==
    /\ BundleJsAt("write")
    /\ bundler.env.output = "io_error"
    /\ bundler' =
          [bundler EXCEPT
              !.pc = "returned",
              !.printed = Append(@, [msg |-> "Error writing bundled JavaScript to",
                                     file |-> MainJs]),
              !.returned = "None"]
    /\ UNCHANGED beside_bundler

NextBundleJs ==
    \/ ListComponents
    \/ ListdirRaises
    \/ FindSharedJs
    \/ WriteEmptyBundle
    \/ WriteEmptyBundleFails
    \/ ReadSources
    \/ WriteBundle
    \/ WriteBundleFails

SpecBundleJs == InitBundleJs /\ [][NextBundleJs]_vars

(***************************************************************************)
(* JsonProtoDataLoader and InMemoryDataCache.preload_data                  *)
(***************************************************************************)
DataFiles == {"data/hero.json", "data/blog.json"}

\* what open, json.load and json_format.ParseDict find at a path
FileStates ==
    {"missing", "invalid_json", "json_list", "json_object", "unparsable", "unreadable"}

\* what a data loader of another class does with a path
StubStates == {"stub_value", "stub_none", "stub_raises"}

PyNone == [kind |-> "None", file |-> "none"]

EmptyList == [kind |-> "empty_list", file |-> "none"]

Returned(value) == [raised |-> "no", value |-> value]

Raised(exception) == [raised |-> exception, value |-> PyNone]

\* the exceptions of the first except clause of preload_data
DataLoaderErrors ==
    { "DataFileNotFoundError", "DataJsonDecodeError", "DataProtobufParseError",
      "InvalidDataStructureError", "DataLoaderError" }

\* JsonProtoDataLoader.load_dynamic_list_data: the InvalidDataStructureError
\* raised inside the try is caught by `except Exception` and leaves as a
\* DataLoaderError
load_dynamic_list_data(data_file_path, state) ==
    CASE state = "missing" -> { Raised("DataFileNotFoundError") }
      [] state = "invalid_json" -> { Raised("DataJsonDecodeError") }
      [] state = "json_object" -> { Raised("DataLoaderError") }
      [] state = "unparsable" -> { Raised("DataProtobufParseError") }
      [] state = "unreadable" -> { Raised("DataLoaderError") }
      [] state = "json_list" -> { Returned([kind |-> "list", file |-> data_file_path]) }

\* JsonProtoDataLoader.load_dynamic_single_item_data; ParseDict of a JSON list
\* raises, a ParseError or another exception
load_dynamic_single_item_data(data_file_path, state) ==
    CASE state = "missing" -> { Raised("DataFileNotFoundError") }
      [] state = "invalid_json" -> { Raised("DataJsonDecodeError") }
      [] state = "json_list" -> { Raised("DataProtobufParseError"), Raised("DataLoaderError") }
      [] state = "unparsable" -> { Raised("DataProtobufParseError") }
      [] state = "unreadable" -> { Raised("DataLoaderError") }
      [] state = "json_object" -> { Returned([kind |-> "message", file |-> data_file_path]) }

\* a data loader of another class
stub_load(data_file_path, state, is_list) ==
    CASE state = "stub_raises" -> { Raised("Exception") }
      [] state = "stub_none" -> { Returned(PyNone) }
      [] state = "stub_value" ->
            { Returned([kind |-> IF is_list THEN "list" ELSE "message",
                        file |-> data_file_path]) }

\* data_loader.load_dynamic_list_data or .load_dynamic_single_item_data
loader_call(loader, data_file_path, state, is_list) ==
    IF loader = "JsonProtoDataLoader"
    THEN IF is_list
         THEN load_dynamic_list_data(data_file_path, state)
         ELSE load_dynamic_single_item_data(data_file_path, state)
    ELSE stub_load(data_file_path, state, is_list)

\* the values of loaders_config: data_file is a path, None or missing; the
\* message type is given or not
LoaderConfigs ==
    [ data_file : DataFiles, message_type : {TRUE}, is_list : BOOLEAN ]
    \cup [ data_file : {"none"}, message_type : {TRUE}, is_list : {TRUE} ]
    \cup [ data_file : {"data/hero.json"}, message_type : {FALSE}, is_list : {FALSE} ]

\* loaders_config.items(), in the dictionary's order
LoadersConfigs ==
    { << >> } \cup { << a >> : a \in LoaderConfigs }
              \cup { << a, b >> : a, b \in LoaderConfigs }
              \cup { << a, b, c >> : a, b, c \in LoaderConfigs }

\* self._cache
EmptyCache == [key \in {} |-> PyNone]

CachedBefore == [kind |-> "message", file |-> "set_item before the call"]

\* self._cache.get(key), then `if item is None: return None`
get_item(cache, key) == IF key \in DOMAIN cache THEN cache[key] ELSE PyNone

\* self._cache[key] = value
set_item(cache, key, value) ==
    [k \in DOMAIN cache \cup {key} |-> IF k = key THEN value ELSE cache[k]]

PreloadEnvironments ==
    [ loader : {"JsonProtoDataLoader"}, files : [DataFiles -> FileStates] ]
    \cup [ loader : {"other"}, files : [DataFiles -> StubStates] ]

CachesAtCall == { EmptyCache, set_item(EmptyCache, "data/hero.json", CachedBefore) }

InitPreload ==
    /\ \E c \in CachesAtCall :
          data \in
             [ pc : {"loop"},
               env : PreloadEnvironments,
               loaders_config : LoadersConfigs,
               position : {1},
               cache : {c},
               cache_at_call : {c},
               calls : {<< >>},
               logged : {<< "Pre-loading dynamic data..." >>} ]
    /\ bundler = Idle /\ hero = Idle /\ build = Idle
    /\ EngineIdle

beside_data == << engine_vars, bundler, hero, build >>

\* the loop stands at an entry of loaders_config
AtEntry ==
    /\ data # Idle
    /\ data.pc = "loop"
    /\ data.position \in DOMAIN data.loaders_config

loader_config == data.loaders_config[data.position]

\* `not data_file` alone
has_no_data_file(config) == config.data_file = "none"

\* `not data_file or not message_type`
is_incomplete(config) == config.data_file = "none" \/ ~config.message_type

NextEntry(cache, calls, message) ==
    /\ data' = [data EXCEPT !.position = @ + 1,
                            !.cache = cache,
                            !.calls = calls,
                            !.logged = IF message = "" THEN @ ELSE Append(@, message)]
    /\ UNCHANGED beside_data

\* a warning, continue
EntryIncomplete ==
    /\ AtEntry
    /\ is_incomplete(loader_config)
    /\ NextEntry(data.cache, data.calls, "Incomplete configuration for loader. Skipping.")

\* a test on the keys of the cache instead of on the value
key_in_cache(frame, data_file) == data_file \in DOMAIN frame.cache

\* `self.get_item(data_file) is not None`
already_cached(frame, data_file) == get_item(frame.cache, data_file) # PyNone

EntryAlreadyCached ==
    /\ AtEntry
    /\ ~is_incomplete(loader_config)
    /\ already_cached(data, loader_config.data_file)
    /\ NextEntry(data.cache, data.calls, "")

\* the call of the loader made for the entry, with what came of it
call_of(config, outcome) ==
    [ entry |-> data.position, data_file |-> config.data_file,
      is_list |-> config.is_list, outcome |-> outcome ]

outcomes_of(config) ==
    loader_call(data.env.loader, config.data_file, data.env.files[config.data_file],
                config.is_list)

\* the load returns: set_item(data_file, loaded_data)
EntryLoaded ==
    /\ AtEntry
    /\ ~is_incomplete(loader_config)
    /\ ~already_cached(data, loader_config.data_file)
    /\ \E outcome \in outcomes_of(loader_config) :
          /\ outcome.raised = "no"
          /\ NextEntry(set_item(data.cache, loader_config.data_file, outcome.value),
                       Append(data.calls, call_of(loader_config, outcome)), "")

\* the load raises one of the loader's errors: logged, nothing is cached
EntryLoadFails ==
    /\ AtEntry
    /\ ~is_incomplete(loader_config)
    /\ ~already_cached(data, loader_config.data_file)
    /\ \E outcome \in outcomes_of(loader_config) :
          /\ outcome.raised \in DataLoaderErrors
          /\ NextEntry(data.cache, Append(data.calls, call_of(loader_config, outcome)),
                       "Failed to preload data. This item will be skipped.")

\* the load raises another Exception: logged, nothing is cached
EntryLoadFailsUnexpectedly ==
    /\ AtEntry
    /\ ~is_incomplete(loader_config)
    /\ ~already_cached(data, loader_config.data_file)
    /\ \E outcome \in outcomes_of(loader_config) :
          /\ outcome.raised \notin DataLoaderErrors \cup {"no"}
          /\ NextEntry(data.cache, Append(data.calls, call_of(loader_config, outcome)),
                       "An unexpected error occurred preloading data. This item will be skipped.")

\* the loop is over
PreloadReturns ==
    /\ data # Idle
    /\ data.pc = "loop"
    /\ data.position \notin DOMAIN data.loaders_config
    /\ data' = [data EXCEPT !.pc = "returned",
                            !.logged = Append(@, "Dynamic data pre-loading complete.")]
    /\ UNCHANGED beside_data

NextPreload ==
    \/ EntryIncomplete
    \/ EntryAlreadyCached
    \/ EntryLoaded
    \/ EntryLoadFails
    \/ EntryLoadFailsUnexpectedly
    \/ PreloadReturns

SpecPreload == InitPreload /\ [][NextPreload]_vars

(***************************************************************************)
(* HeroHtmlGenerator.generate_html                                         *)
(***************************************************************************)
\* text.replace("&", "&amp;").replace("<", "&lt;").replace(">", "&gt;")
RECURSIVE escape_html(_)
escape_html(text) ==
    IF text = << >> THEN << >>
    ELSE (CASE Head(text) = "&" -> <<"&", "a", "m", "p", ";">>
            [] Head(text) = "<" -> <<"&", "l", "t", ";">>
            [] Head(text) = ">" -> <<"&", "g", "t", ";">>
            [] OTHER -> << Head(text) >>) \o escape_html(Tail(text))

\* create_element(tag_name, content, attributes) for h1, p and a
create_element(tag_name, content, attributes) ==
    [ tag |-> tag_name,
      attributes |-> [k \in DOMAIN attributes |-> escape_html(attributes[k])],
      content |-> content ]

NoAttributes == [k \in {} |-> << >>]

VariationIds == {"", "v1", "v2"}

TitleKeys == { <<"t", "1">>, <<"a", "<", "b">> }

\* a HeroItemContent message
HeroItemContent(variation_id, title_key) ==
    [ variation_id |-> variation_id,
      title |-> title_key,
      subtitle |-> <<"s">> \o title_key,
      cta_text |-> <<"c">> \o title_key,
      cta_uri |-> <<"#", "g", "o", "&">> ]

HeroItemContents == { HeroItemContent(id, key) : id \in VariationIds, key \in TitleKeys }

VariationLists ==
    { << >> } \cup { << a >> : a \in HeroItemContents }
              \cup { << a, b >> : a, b \in HeroItemContents }
              \cup { << a, b, c >> : a, b, c \in HeroItemContents }

\* the data argument: None, or a HeroItem message
HeroNone == [none |-> TRUE, default_variation_id |-> "", variations |-> << >>]

HeroItems ==
    [ none : {FALSE},
      default_variation_id : VariationIds \cup {"v3"},
      variations : VariationLists ]

\* the translations argument
TranslationsNone == [key \in {} |-> << >>]

TranslationsEn == [key \in { <<"t", "1">> } |-> <<"T", "&", "C">>]

\* translations.get(key, key)
translations_get(translations, key) ==
    IF key \in DOMAIN translations THEN translations[key] ELSE key

\* selected_variation before the selection; a message is never falsy
NoVariation == [none |-> TRUE, content |-> HeroItemContent("", << >>)]

Selected(var) == [none |-> FALSE, content |-> var]

InitHero ==
    /\ hero \in
          [ pc : {"call"},
            data : {HeroNone} \cup HeroItems,
            translations : {TranslationsNone, TranslationsEn},
            selected_variation : {NoVariation},
            html : {[comment |-> "nothing returned", elements |-> << >>]} ]
    /\ bundler = Idle /\ data = Idle /\ build = Idle
    /\ EngineIdle

beside_hero == << engine_vars, bundler, data, build >>

HeroAt(place) == hero # Idle /\ hero.pc = place

\* `if not data or not data.variations`
HeroNotFound ==
    /\ HeroAt("call")
    /\ hero.data.none \/ hero.data.variations = << >>
    /\ hero' = [hero EXCEPT
                   !.pc = "returned",
                   !.html = [comment |-> "<!-- Hero data not found or no variations -->",
                             elements |-> << >>]]
    /\ UNCHANGED beside_hero

\* the variations whose variation_id is the default one
matching(item) ==
    { i \in DOMAIN item.variations :
         item.variations[i].variation_id = item.default_variation_id }

\* the loop without its break
last_match(item) ==
    item.variations[CHOOSE i \in matching(item) : \A j \in matching(item) : j <= i]

\* the loop over data.variations, left at the first match
first_match(item) ==
    item.variations[CHOOSE i \in matching(item) : \A j \in matching(item) : i <= j]

\* `if data.default_variation_id:` and the loop finds a variation
default_found(item) == item.default_variation_id # "" /\ matching(item) # {}

SelectDefaultVariation ==
    /\ HeroAt("call")
    /\ ~(hero.data.none \/ hero.data.variations = << >>)
    /\ default_found(hero.data)
    /\ hero' = [hero EXCEPT !.pc = "selected",
                            !.selected_variation = Selected(first_match(hero.data))]
    /\ UNCHANGED beside_hero

\* `if not selected_variation and data.variations:` random.choice
SelectRandomVariation ==
    /\ HeroAt("call")
    /\ ~(hero.data.none \/ hero.data.variations = << >>)
    /\ ~default_found(hero.data)
    /\ \E i \in DOMAIN hero.data.variations :
          hero' = [hero EXCEPT !.pc = "selected",
                               !.selected_variation = Selected(hero.data.variations[i])]
    /\ UNCHANGED beside_hero

\* the h1, p and a elements and the closing comment
hero_html(var, translations) ==
    [ comment |-> "<!-- Selected variation: {variation_id} -->",
      variation_id |-> var.variation_id,
      elements |->
         << create_element("h1", escape_html(translations_get(translations, var.title)),
                           NoAttributes),
            create_element("p", escape_html(translations_get(translations, var.subtitle)),
                           NoAttributes),
            create_element("a", escape_html(translations_get(translations, var.cta_text)),
                           [k \in {"href", "class"} |->
                               IF k = "href" THEN var.cta_uri
                               ELSE <<"c", "t", "a", "-", "b", "u", "t", "t", "o", "n">>]) >> ]

\* `if not selected_variation:` the comment, else the elements
ReturnHeroHtml ==
    /\ HeroAt("selected")
    /\ hero' = [hero EXCEPT
                   !.pc = "returned",
                   !.html = IF hero.selected_variation.none
                            THEN [comment |-> "<!-- Could not select a hero variation -->",
                                  elements |-> << >>]
                            ELSE hero_html(hero.selected_variation.content,
                                           hero.translations)]
    /\ UNCHANGED beside_hero

NextHero ==
    \/ HeroNotFound
    \/ SelectDefaultVariation
    \/ SelectRandomVariation
    \/ ReturnHeroHtml

SpecHero == InitHero /\ [][NextHero]_vars

(***************************************************************************)
(* build.main                                                              *)
(***************************************************************************)
supported_langs == << "en", "es" >>

default_lang == "en"

\* the data files of dynamic_data_loaders, in the dictionary's order
DynamicDataFiles ==
    << "data/portfolio_items.json", "data/blog_posts.json", "data/feature_items.json",
       "data/testimonial_items.json", "data/hero_item.json" >>

\* the files loaded once more after the configuration is read again
ReloadedDataFiles ==
    << "data/portfolio_items.json", "data/blog_posts.json", "data/feature_items.json",
       "data/testimonial_items.json" >>

\* raw_config.get("blocks", [])
BlockLists == { << >>, << "hero.html" >>, << "hero.html", "about.html" >> }

WriteOutcomes == {"written", "io_error"}

BuildEnvironments ==
    [ config_json : {"found", "missing", "undecodable"},
      index_html : {"found", "missing"},
      locales : [{"en", "es"} -> {"found", "missing"}],
      blocks : BlockLists,
      config_write : [{"en", "es"} -> WriteOutcomes],
      page_write : [{"en", "es"} -> WriteOutcomes] ]

InitBuild ==
    /\ build \in
          [ pc : {"call"},
            env : BuildEnvironments,
            lang_index : {0},
            opened : {<< >>},
            translations_loaded : {<< >>},
            printed : {<< >>},
            exit_status : {"running"} ]
    /\ bundler = Idle /\ data = Idle /\ hero = Idle
    /\ EngineIdle

beside_build == << engine_vars, bundler, data, hero >>

BuildAt(place) == build # Idle /\ build.pc = place

\* open(path, mode) as the call is made, with what it gives
open_call(path, mode, outcome) == [path |-> path, mode |-> mode, outcome |-> outcome]

read_found(path) == open_call(path, "r", "read")

\* public/config.json is missing or not JSON: print, sys.exit(1)
ConfigNotReadable ==
    /\ BuildAt("call")
    /\ build.env.config_json # "found"
    /\ build' = [build EXCEPT
                    !.pc = "exited",
                    !.opened = Append(@, open_call("public/config.json", "r",
                                                   build.env.config_json)),
                    !.printed = Append(@, "Error: public/config.json. Exiting."),
                    !.exit_status = "1"]
    /\ UNCHANGED beside_build

\* the configuration, the navigation data and the dynamic data are read; the
\* configuration and four of the data files are then read a second time
LoadConfigAndData ==
    /\ BuildAt("call")
    /\ build.env.config_json = "found"
    /\ build' = [build EXCEPT
                    !.pc = "base",
                    !.opened = @ \o << read_found("public/config.json"),
                                       read_found("data/navigation.json") >>
                                 \o seq_map(read_found, DynamicDataFiles)
                                 \o << read_found("public/config.json") >>
                                 \o seq_map(read_found, ReloadedDataFiles)]
    /\ UNCHANGED beside_build

\* index.html is missing: print, sys.exit(1)
BaseIndexNotFound ==
    /\ BuildAt("base")
    /\ build.env.index_html = "missing"
    /\ build' = [build EXCEPT
                    !.pc = "exited",
                    !.opened = Append(@, open_call("index.html", "r", "missing")),
                    !.printed = Append(@, "Error: Base index.html not found. Exiting."),
                    !.exit_status = "1"]
    /\ UNCHANGED beside_build

ReadBaseIndex ==
    /\ BuildAt("base")
    /\ build.env.index_html = "found"
    /\ build' = [build EXCEPT
                    !.pc = "language",
                    !.lang_index = 1,
                    !.opened = Append(@, read_found("index.html"))]
    /\ UNCHANGED beside_build

lang == supported_langs[build.lang_index]

\* translations = load_translations(lang); a missing file gives {}
LoadTranslations ==
    /\ BuildAt("language")
    /\ build.lang_index \in DOMAIN supported_langs
    /\ build' = [build EXCEPT
                    !.pc = "config",
                    !.translations_loaded = Append(@, lang),
                    !.opened = Append(@, open_call("public/locales/" \o lang \o ".json", "r",
                                                   build.env.locales[lang])),
                    !.printed = Append(@, "Processing language: " \o lang)]
    /\ UNCHANGED beside_build

generated_config_path(language) ==
    "public/generated_configs/config_" \o language \o ".json"

\* json.dump of the language's configuration; an IOError is printed
WriteLanguageConfig ==
    /\ BuildAt("config")
    /\ build' = [build EXCEPT
                    !.pc = "blocks",
                    !.opened = Append(@, open_call(generated_config_path(lang), "w",
                                                   build.env.config_write[lang])),
                    !.printed = Append(@, IF build.env.config_write[lang] = "written"
                                          THEN "Generated language-specific config"
                                          ELSE "Error writing language-specific config")]
    /\ UNCHANGED beside_build

block_path(block_file) == "blocks/" \o block_file

\* blocks/about.html does not exist: a warning, the block is left out
read_block(block_file) ==
    open_call(block_path(block_file), "r",
              IF block_file = "about.html" THEN "missing" ELSE "read")

\* the loop over the blocks of the configuration
AssembleBlocks ==
    /\ BuildAt("blocks")
    /\ build' = [build EXCEPT
                    !.pc = "page",
                    !.opened = @ \o seq_map(read_block, build.env.blocks)]
    /\ UNCHANGED beside_build

\* index_<lang>.html, and index.html for the default language
output_filename(language) ==
    IF language = default_lang THEN "index.html" ELSE "index_" \o language \o ".html"

\* the page is written; an IOError is printed; then the next language
WritePage ==
    /\ BuildAt("page")
    /\ build' = [build EXCEPT
                    !.pc = "language",
                    !.lang_index = @ + 1,
                    !.opened = Append(@, open_call(output_filename(lang), "w",
                                                   build.env.page_write[lang])),
                    !.printed = @ \o << "Writing " \o output_filename(lang) >>
                                  \o IF build.env.page_write[lang] = "written"
                                     THEN << >> ELSE << "Error writing file" >>]
    /\ UNCHANGED beside_build

\* the loop over supported_langs is over
BuildComplete ==
    /\ BuildAt("language")
    /\ build.lang_index \notin DOMAIN supported_langs
    /\ build' = [build EXCEPT !.pc = "complete",
                              !.printed = Append(@, "Build process complete.")]
    /\ UNCHANGED beside_build

NextBuild ==
    \/ ConfigNotReadable
    \/ LoadConfigAndData
    \/ BaseIndexNotFound
    \/ ReadBaseIndex
    \/ LoadTranslations
    \/ WriteLanguageConfig
    \/ AssembleBlocks
    \/ WritePage
    \/ BuildComplete

SpecBuild == InitBuild /\ [][NextBuild]_vars

(***************************************************************************)
(* Terms of the properties                                                 *)
(***************************************************************************)
\* the loop has run on at least one fragment; LastAttr is the latest one
Processed == pc \in {"loop", "done"} /\ idx > 1

LastAttr == raw_attributes[idx - 1]

\* the fragment reached the classifier
accepted(attr) == ~is_blank(attr) /\ ~is_malformed(attr) /\ ~is_non_sads(attr)

LastAccepted == Processed /\ accepted(LastAttr)

LastKey == sads_key_of(LastAttr)

LastValue == value_of(LastAttr)

\* the entry the latest iteration stored
LastEntry == attributes_map[LastKey]

CategoryOrder == <<"colors", "spacing", "fontSize", "fontWeight", "borderRadius">>

SubstringsOf(category) ==
    CASE category = "colors" -> ColorSubstrings
      [] category = "spacing" -> SpacingSubstrings
      [] category = "fontSize" -> {FontSizeSubstring}
      [] category = "fontWeight" -> {FontWeightSubstring}
      [] category = "borderRadius" -> {BorderRadiusSubstring}

VariantOf(category) ==
    CASE category = "colors" -> "color_token"
      [] category = "spacing" -> "spacing_token"
      [] category = "fontSize" -> "font_size_value"
      [] category = "fontWeight" -> "font_weight_token"
      [] category = "borderRadius" -> "border_radius_token"

\* the three conditions of a category rule
RuleHolds(category, key, value, theme) ==
    /\ category \in DOMAIN theme.dict
    /\ value \in theme.dict[category]
    /\ \E sub \in SubstringsOf(category) : str_contains(str_lower(key), sub)

HasCustomPrefix(value) == str_startswith(value, CustomPrefix)

WithoutCustomPrefix(value) == SubSeq(value, Len(CustomPrefix) + 1, Len(value))

(***************************************************************************)
(* C1: an accepted fragment whose unquoted value starts with custom: is    *)
(* stored as custom_value holding the value without the prefix, whatever   *)
(* the attribute name and the theme, also when the remainder is a token of *)
(* a category the attribute name mentions.                                 *)
(***************************************************************************)
C1_CustomPrefixWins ==
    (LastAccepted /\ HasCustomPrefix(LastValue)) =>
        /\ DOMAIN LastEntry = {"custom_value"}
        /\ LastEntry["custom_value"] = WithoutCustomPrefix(LastValue)

\* custom:m under a key that mentions a colour, in a theme whose colors hold m
C1_Witness ==
    /\ LastAccepted
    /\ HasCustomPrefix(LastValue)
    /\ RuleHolds("colors", LastKey, WithoutCustomPrefix(LastValue), theme_context)
    /\ LastEntry = dict_set(EmptyDict, "custom_value", TokenM)

(***************************************************************************)
(* C2: for an accepted pair whose value has no custom: prefix, the variant *)
(* stored is that of the first category, in the order colors, spacing,     *)
(* fontSize, fontWeight, borderRadius, whose rule holds; a later category  *)
(* whose rule holds too does not override it.                              *)
(***************************************************************************)
C2_CategoryPrecedence ==
    (LastAccepted /\ ~HasCustomPrefix(LastValue)) =>
        \A k \in 1..Len(CategoryOrder) :
            ( /\ RuleHolds(CategoryOrder[k], LastKey, LastValue, theme_context)
              /\ \A j \in 1..(k - 1) :
                    ~RuleHolds(CategoryOrder[j], LastKey, LastValue, theme_context) )
                => DOMAIN LastEntry = {VariantOf(CategoryOrder[k])}

\* a key mentioning bg and padding, a value in colors and in spacing: ColorToken
C2_Witness ==
    /\ LastAccepted
    /\ ~HasCustomPrefix(LastValue)
    /\ RuleHolds("colors", LastKey, LastValue, theme_context)
    /\ RuleHolds("spacing", LastKey, LastValue, theme_context)
    /\ DOMAIN LastEntry = {"color_token"}

(***************************************************************************)
(* C3: an entry is a color_token, spacing_token, font_weight_token or      *)
(* border_radius_token only if the fragment's raw value is verbatim a key  *)
(* of the theme's colors, spacing, fontWeight or borderRadius map; with a  *)
(* None or empty theme no token variant appears in the Styling Set.        *)
(***************************************************************************)
TokenCategories == {"colors", "spacing", "fontWeight", "borderRadius"}

C3_TokenOnlyForThemeKey ==
    /\ LastAccepted =>
          \A c \in TokenCategories :
              VariantOf(c) \in DOMAIN LastEntry =>
                  (c \in DOMAIN theme_context.dict /\ LastValue \in theme_context.dict[c])
    /\ (theme_context.none \/ theme_context.dict = EmptyDict) =>
          \A key \in DOMAIN attributes_map :
              \A c \in TokenCategories : VariantOf(c) \notin DOMAIN attributes_map[key]

\* a spacing token stored for a value that is a key of the theme's spacing
C3_Witness ==
    /\ LastAccepted
    /\ "spacing_token" \in DOMAIN LastEntry
    /\ LastValue \in theme_context.dict["spacing"]
    /\ pc = "done"

(***************************************************************************)
(* C4: every value of attributes_map carries exactly one variant key, and  *)
(* the "Could not determine value type" branch is never taken.             *)
(***************************************************************************)
C4_ExactlyOneVariant ==
    /\ \A key \in DOMAIN attributes_map :
          /\ DOMAIN attributes_map[key] \subseteq VariantKeys
          /\ Cardinality(DOMAIN attributes_map[key]) = 1
    /\ \A k \in 1..Len(stdout) : stdout[k][1] # "Could not determine value type"

\* a returned Styling Set of two entries, one a token and one a custom value
C4_Witness ==
    /\ pc = "done"
    /\ Cardinality(DOMAIN result) = 2
    /\ \E a, b \in DOMAIN result :
          /\ DOMAIN result[a] = {"spacing_token"}
          /\ DOMAIN result[b] = {"custom_value"}

(***************************************************************************)
(* Terms of the tokenizer properties, stated on the text of a fragment     *)
(***************************************************************************)
HasChar(text, c) == \E k \in 1..Len(text) : text[k] = c

\* the fragment's text before its first "=", white space trimmed
FragKeyText(frag) ==
    LET at == CHOOSE k \in 1..Len(frag) : frag[k] = "=" /\ ~HasChar(SubSeq(frag, 1, k - 1), "=")
    IN str_strip(SubSeq(frag, 1, at - 1))

\* a fragment with an "=" whose key starts with data-sads-
WellFormed(frag) ==
    HasChar(frag, "=") /\ str_startswith(FragKeyText(frag), DataSadsPrefix)

\* the attribute name: what follows data-sads- in the key
FragName(frag) ==
    str_strip(SubSeq(FragKeyText(frag), Len(DataSadsPrefix) + 1, Len(FragKeyText(frag))))

\* the fragment holds a character that is not white space
NonBlank(frag) == \E k \in 1..Len(frag) : frag[k] \notin Whitespace

\* the positions of the fragments the loop has run on
Visited == IF Processed THEN 1..(idx - 1) ELSE {}

VisitedWellFormed == {j \in Visited : WellFormed(raw_attributes[j])}

(***************************************************************************)
(* C5: every key of the Styling Set is a non-empty string without a        *)
(* hyphen, also for a fragment such as data-sads-="x".                     *)
(***************************************************************************)
C5_KeysNonEmptyNoHyphen ==
    \A key \in DOMAIN attributes_map : key # << >> /\ ~HasChar(key, "-")

(***************************************************************************)
(* C6 as claimed: the key of a name with hyphens is its first segment      *)
(* lower-cased, then each later segment with its first letter upper-cased  *)
(* and its other letters as written.                                       *)
(* C6 as amended: the first segment as written, then each later segment    *)
(* with its first letter upper-cased and its other letters lower-cased.    *)
(* Both are stated on the set of keys stored so far, a name without        *)
(* hyphens being its own key.                                              *)
(***************************************************************************)
UpperFirst(seg) == [k \in 1..Len(seg) |-> IF k = 1 THEN upper_char(seg[k]) ELSE seg[k]]

UpperFirstLowerRest(seg) ==
    [k \in 1..Len(seg) |-> IF k = 1 THEN upper_char(seg[k]) ELSE lower_char(seg[k])]

RECURSIVE Concat(_)
Concat(segs) == IF segs = << >> THEN << >> ELSE Head(segs) \o Concat(Tail(segs))

ClaimedKey(name) ==
    LET segs == str_split(name, "-")
    IN IF ~HasChar(name, "-") THEN name
       ELSE str_lower(segs[1])
                \o Concat([k \in 1..(Len(segs) - 1) |-> UpperFirst(segs[k + 1])])

AmendedKey(name) ==
    LET segs == str_split(name, "-")
    IN IF ~HasChar(name, "-") THEN name
       ELSE segs[1]
                \o Concat([k \in 1..(Len(segs) - 1) |-> UpperFirstLowerRest(segs[k + 1])])

NamesVisited == {FragName(raw_attributes[j]) : j \in VisitedWellFormed}

C7_NormalizationIdempotent ==
    /\ (\A name \in NamesVisited : ~HasChar(name, "-")) => DOMAIN attributes_map = NamesVisited
    /\ \A key \in DOMAIN attributes_map : normalize_key(DataSadsPrefix \o key) = key
    /\ (NamesVisited \subseteq {NameFontWeightKebab, NameFontWeightCamel})
          => Cardinality(DOMAIN attributes_map) <= 1

\* both spellings were given in one input and the Styling Set has one entry
C7_Witness ==
    /\ pc = "done"
    /\ NamesVisited = {NameFontWeightKebab, NameFontWeightCamel}
    /\ DOMAIN result = {NameFontWeightCamel}

(***************************************************************************)
(* C8: last write wins: the returned Styling Set has exactly one entry per *)
(* distinct normalized key of the accepted fragments, and the entry equals *)
(* what the right-most fragment of that key gives when parsed alone.       *)
(***************************************************************************)
RightMost(j) ==
    \A h \in VisitedWellFormed :
        h > j => sads_key_of(raw_attributes[h]) # sads_key_of(raw_attributes[j])

Alone(j) == parse_llm_sads_string_to_dict(raw_attributes[j], theme_context)

C8_LastWriteWins ==
    (pc = "done" /\ Processed) =>
        /\ DOMAIN result = {sads_key_of(raw_attributes[j]) : j \in VisitedWellFormed}
        /\ \A j \in VisitedWellFormed :
              RightMost(j) =>
                  result[sads_key_of(raw_attributes[j])]
                      = Alone(j)[sads_key_of(raw_attributes[j])]

\* two accepted fragments of one key that classify differently; the later one stands
C8_Witness ==
    /\ pc = "done"
    /\ \E j, h \in VisitedWellFormed :
          /\ j < h
          /\ RightMost(h)
          /\ sads_key_of(raw_attributes[j]) = sads_key_of(raw_attributes[h])
          /\ Alone(j) # Alone(h)
          /\ result[sads_key_of(raw_attributes[h])]
                 = Alone(h)[sads_key_of(raw_attributes[h])]

(***************************************************************************)
(* C9: a fragment without "=" or whose key does not start with data-sads-  *)
(* does not influence the rest: the Styling Set returned equals the one    *)
(* returned for the input with the text of every such fragment deleted.    *)
(***************************************************************************)
WithoutMalformed(s) ==
    LET frags == str_split(s, " ")
    IN JoinSpace([k \in 1..Len(frags) |->
                     IF WellFormed(frags[k]) THEN frags[k] ELSE << >>])

C9_MalformedSkipped ==
    pc = "done" =>
        result = parse_llm_sads_string_to_dict(WithoutMalformed(sads_attributes_string),
                                               theme_context)

\* a declaration between a fragment without "=" and one without the prefix
C9_Witness ==
    /\ pc = "done"
    /\ Len(raw_attributes) = 3
    /\ NonBlank(raw_attributes[1]) /\ ~HasChar(raw_attributes[1], "=")
    /\ WellFormed(raw_attributes[2])
    /\ HasChar(raw_attributes[3], "=") /\ ~WellFormed(raw_attributes[3])
    /\ Cardinality(DOMAIN result) = 1

(***************************************************************************)
(* C10 as claimed: every non-empty fragment gives exactly one write or     *)
(* exactly one warning, and an empty fragment gives neither.               *)
(* C10 as amended: every fragment that holds a character other than white  *)
(* space gives exactly one write (when well-formed) or exactly one warning *)
(* (when not); an empty or all-white-space fragment gives neither.         *)
(***************************************************************************)
C10_OneOutcomePerNonEmptyFragment ==
    Processed =>
        n_writes + Len(stdout)
            = Cardinality({j \in Visited : raw_attributes[j] # << >>})

C10_OneOutcomePerNonBlankFragment ==
    Processed =>
        /\ n_writes = Cardinality(VisitedWellFormed)
        /\ Len(stdout)
              = Cardinality({j \in Visited :
                                NonBlank(raw_attributes[j]) /\ ~WellFormed(raw_attributes[j])})
        /\ n_writes + Len(stdout)
              = Cardinality({j \in Visited : NonBlank(raw_attributes[j])})

\* a tab between a declaration and a rejected fragment: one write, one warning
C10_Witness ==
    /\ pc = "done"
    /\ Len(raw_attributes) = 3
    /\ raw_attributes[2] = PieceTab
    /\ n_writes = 1
    /\ Len(stdout) = 1

(***************************************************************************)
(* C11: the parser is total: for every input string and every theme, None  *)
(* and the empty mapping included, no fragment makes the loop body raise,  *)
(* the loop never runs past the end of the fragment list, and what the     *)
(* call returns is a Styling Set, each entry holding one variant, however  *)
(* many fragments were malformed.                                          *)
(***************************************************************************)
IsStylingSet(map) ==
    \A k \in DOMAIN map :
        /\ Cardinality(DOMAIN map[k]) = 1
        /\ DOMAIN map[k] \subseteq VariantKeys

C11_ParserTotal ==
    /\ InLoop =>
          /\ ~raises_index_error(raw_attributes[idx])
          /\ accepted(raw_attributes[idx]) =>
                ~raises_type_error(value_of(raw_attributes[idx]), theme_context)
    /\ pc = "loop" => idx \in 1..(Len(raw_attributes) + 1)
    /\ pc = "done" => IsStylingSet(result)

C11_Witness ==
    /\ pc = "done"
    /\ theme_context.none
    /\ \E j \in Visited : NonBlank(raw_attributes[j]) /\ ~WellFormed(raw_attributes[j])
    /\ \E j \in Visited : WellFormed(raw_attributes[j])
    /\ result # EmptyDict

(***************************************************************************)
(* The declared grammar: any number of declarations, each data-sads-, a    *)
(* name of one or more letters and hyphens, an equals sign, a text without *)
(* double quotes between two double quotes, and optional white space.      *)
(* Read from the left, a conforming text gives its declarations, each with *)
(* its name and the full text between its quotes.                          *)
(***************************************************************************)
NameChars ==
    {LowerCase[k] : k \in 1..Len(LowerCase)} \cup {UpperCase[k] : k \in 1..Len(UpperCase)}
        \cup {"-"}

\* how many leading characters of text are in chars
LeadingIn(text, chars) ==
    CHOOSE n \in 0..Len(text) :
        /\ \A k \in 1..n : text[k] \in chars
        /\ n = Len(text) \/ text[n + 1] \notin chars

\* how many leading characters of text are different from c
LeadingUntil(text, c) ==
    CHOOSE n \in 0..Len(text) :
        /\ \A k \in 1..n : text[k] # c
        /\ n = Len(text) \/ text[n + 1] = c

NoParse == [ok |-> FALSE, decls |-> << >>]

RECURSIVE GrammarDeclarations(_)
GrammarDeclarations(text) ==
    IF text = << >> THEN [ok |-> TRUE, decls |-> << >>]
    ELSE IF ~str_startswith(text, DataSadsPrefix) THEN NoParse
    ELSE LET rest == SubSeq(text, Len(DataSadsPrefix) + 1, Len(text))
             n == LeadingIn(rest, NameChars)
             after == SubSeq(rest, n + 1, Len(rest))
             body == SubSeq(after, 3, Len(after))
             q == LeadingUntil(body, "\"")
             tail == SubSeq(body, q + 2, Len(body))
             more == GrammarDeclarations(
                         SubSeq(tail, LeadingIn(tail, Whitespace) + 1, Len(tail)))
         IN IF n = 0 \/ Len(after) < 2 THEN NoParse
            ELSE IF after[1] # "=" \/ after[2] # "\"" THEN NoParse
            ELSE IF q = Len(body) THEN NoParse
            ELSE IF ~more.ok THEN NoParse
            ELSE [ok |-> TRUE,
                  decls |-> << [name |-> SubSeq(rest, 1, n),
                                value |-> SubSeq(body, 1, q)] >> \o more.decls]

InputDeclarations == GrammarDeclarations(sads_attributes_string).decls

\* no later declaration of the input has the same key
LastOfItsKey(j) ==
    \A h \in (j + 1)..Len(InputDeclarations) :
        AmendedKey(InputDeclarations[h].name) # AmendedKey(InputDeclarations[j].name)

(***************************************************************************)
(* C12: for an input that conforms to the grammar, a quoted value with     *)
(* spaces included, the call prints no diagnostic, stores once per         *)
(* declaration, and the entry of a key is the classification of the full   *)
(* text between the quotes of the key's last declaration.                  *)
(***************************************************************************)
C12_GrammarInputsFullyParsed ==
    (pc = "done" /\ GrammarDeclarations(sads_attributes_string).ok) =>
        /\ stdout = << >>
        /\ n_writes = Len(InputDeclarations)
        /\ DOMAIN result
              = {AmendedKey(InputDeclarations[j].name) : j \in 1..Len(InputDeclarations)}
        /\ \A j \in 1..Len(InputDeclarations) :
              LastOfItsKey(j) =>
                  result[AmendedKey(InputDeclarations[j].name)]
                      = classify(AmendedKey(InputDeclarations[j].name),
                                 InputDeclarations[j].value, theme_context)

\* the same statement for the inputs other than the prompt's own example
C12_HoldsWithoutSpacedValues ==
    sads_attributes_string # PieceSpacedValue => C12_GrammarInputsFullyParsed

(***************************************************************************)
(* C13: quotes are required: the fragments stored are the well-formed ones *)
(* whose value is enclosed in double quotes, and every other well-formed   *)
(* fragment is reported.                                                   *)
(***************************************************************************)
\* the fragment's text after its first "=", white space trimmed
FragValueText(frag) ==
    LET at == CHOOSE k \in 1..Len(frag) : frag[k] = "=" /\ ~HasChar(SubSeq(frag, 1, k - 1), "=")
    IN str_strip(SubSeq(frag, at + 1, Len(frag)))

QuotedValue(frag) ==
    /\ Len(FragValueText(frag)) >= 2
    /\ FragValueText(frag)[1] = "\""
    /\ FragValueText(frag)[Len(FragValueText(frag))] = "\""

C13_QuotesRequired ==
    Processed =>
        /\ n_writes = Cardinality({j \in VisitedWellFormed : QuotedValue(raw_attributes[j])})
        /\ Len(stdout) >= Cardinality({j \in VisitedWellFormed : ~QuotedValue(raw_attributes[j])})

\* the same statement for the inputs whose well-formed fragments are all quoted
C13_HoldsForQuotedFragments ==
    (\A j \in VisitedWellFormed : QuotedValue(raw_attributes[j])) => C13_QuotesRequired

(***************************************************************************)
(* C14: an accepted value without custom: prefix for which no category     *)
(* rule holds is stored verbatim, as font_size_value exactly when the      *)
(* lower-cased key contains fontsize and is not an allow-listed name, as   *)
(* custom_value otherwise; and a font_size_value, matched or fallback, is  *)
(* always the raw value, never an encoded token name.                      *)
(***************************************************************************)
NoRuleHolds(key, value, theme) ==
    \A k \in 1..Len(CategoryOrder) : ~RuleHolds(CategoryOrder[k], key, value, theme)

FontSizeFallback(key) ==
    /\ str_contains(str_lower(key), FontSizeSubstring)
    /\ str_lower(key) \notin GenericCssProperties

C14_FallbackRules ==
    LastAccepted =>
        /\ (~HasCustomPrefix(LastValue) /\ NoRuleHolds(LastKey, LastValue, theme_context)) =>
              LastEntry = IF FontSizeFallback(LastKey)
                          THEN [v \in {"font_size_value"} |-> LastValue]
                          ELSE [v \in {"custom_value"} |-> LastValue]
        /\ "font_size_value" \in DOMAIN LastEntry => LastEntry["font_size_value"] = LastValue

\* font-SIZE="huge": no rule holds, the fallback stores font_size_value huge
C14_Witness ==
    /\ pc = "done"
    /\ LastAccepted
    /\ ~theme_context.none
    /\ "fontSize" \in DOMAIN theme_context.dict
    /\ NoRuleHolds(LastKey, LastValue, theme_context)
    /\ LastEntry = [v \in {"font_size_value"} |-> ValueHuge]

(***************************************************************************)
(* C15 as claimed: for the key borderRadius and a theme without the        *)
(* borderRadius category, every value without custom: prefix is stored as  *)
(* custom_value.                                                           *)
(* C15 as amended: it is stored as color_token when the value is a key of  *)
(* the theme's colors, the key borderRadius containing "border", and as    *)
(* custom_value otherwise.                                                 *)
(***************************************************************************)
KeyBorderRadius == <<"b", "o", "r", "d", "e", "r", "R", "a", "d", "i", "u", "s">>

BorderRadiusWithoutCategory ==
    /\ LastAccepted
    /\ LastKey = KeyBorderRadius
    /\ ~HasCustomPrefix(LastValue)
    /\ "borderRadius" \notin DOMAIN theme_context.dict

ValueIsColor ==
    "colors" \in DOMAIN theme_context.dict /\ LastValue \in theme_context.dict["colors"]

C15_BorderRadiusAlwaysCustom ==
    BorderRadiusWithoutCategory => LastEntry = [v \in {"custom_value"} |-> LastValue]

C15_BorderRadiusColorOrCustom ==
    BorderRadiusWithoutCategory =>
        IF ValueIsColor
        THEN DOMAIN LastEntry = {"color_token"}
        ELSE LastEntry = [v \in {"custom_value"} |-> LastValue]

\* borderRadius="m" with m a color and a spacing token: stored as color_token
C15_Witness ==
    /\ pc = "done"
    /\ BorderRadiusWithoutCategory
    /\ ValueIsColor
    /\ "spacing" \in DOMAIN theme_context.dict
    /\ "color_token" \in DOMAIN LastEntry

(***************************************************************************)
(* C16: the token string stored for a matched token name is reversible:    *)
(* no other token name of the same category of the theme gives the string  *)
(* that was stored.                                                        *)
(***************************************************************************)
PrefixOf(category) ==
    CASE category = "colors" -> ColorTokenPrefix
      [] category = "spacing" -> SpacingTokenPrefix
      [] category = "fontWeight" -> FontWeightTokenPrefix
      [] category = "borderRadius" -> BorderRadiusTokenPrefix

C16_TokenStringReversible ==
    LastAccepted =>
        \A c \in TokenCategories :
            VariantOf(c) \in DOMAIN LastEntry =>
                \A t \in theme_context.dict[c] :
                    t # LastValue => token_string(PrefixOf(c), t) # LastEntry[VariantOf(c)]

\* the same statement for the themes without colliding token names
C16_HoldsWithoutCollidingNames ==
    theme_context # ThemeCollide => C16_TokenStringReversible

(***************************************************************************)
(* Reading a token block back: its lines, and the names a line lists after *)
(* the label of its category.                                              *)
(***************************************************************************)
BlockLines(block) == str_split(block, "\n")

NamesAfter(line, label) ==
    LET listed == str_split(SubSeq(line, Len(label) + 1, Len(line)), ",")
    IN {str_strip_chars(listed[k], {" "}) : k \in 1..Len(listed)}

ListedNames(block, category) ==
    UNION { NamesAfter(BlockLines(block)[k], line_label(category)) :
              k \in {h \in 1..Len(BlockLines(block)) :
                        str_startswith(BlockLines(block)[h], line_label(category))} }

\* the fragment was resolved by the rule of the category
ResolvedBy(category) ==
    /\ ~HasCustomPrefix(LastValue)
    /\ VariantOf(category) \in DOMAIN LastEntry
    /\ RuleHolds(category, LastKey, LastValue, theme_context)

(***************************************************************************)
(* C20: a value the parser resolves by the rule of a category is one of    *)
(* the names that the prompt built from the same theme lists on the line   *)
(* of that category.                                                       *)
(***************************************************************************)
C20_VocabularyConsistent ==
    LastAccepted =>
        \A k \in 1..Len(CategoryOrder) :
            ResolvedBy(CategoryOrder[k]) =>
                LastValue \in ListedNames(
                    construct_llm_prompt(<< >>, << >>, theme_context).theme_tokens,
                    CategoryOrder[k])

\* a border radius token, resolved with a theme whose line lists it
C20_Witness ==
    /\ pc = "done"
    /\ LastAccepted
    /\ ResolvedBy("borderRadius")
    /\ ListedNames(construct_llm_prompt(<< >>, << >>, theme_context).theme_tokens,
                   "borderRadius") = {TokenM}

(***************************************************************************)
(* C19: the token block of the prompt has, after its header, exactly one   *)
(* line for each of colors, spacing, fontSize, fontWeight, borderRadius    *)
(* and shadow that the theme holds non-empty, in that order, each listing  *)
(* exactly the token names of its category; an absent or empty category    *)
(* has no line; and with no such category the block is the fixed sentence  *)
(* that begins "No specific SADS theme tokens provided".                   *)
(***************************************************************************)
SixCategories == <<"colors", "spacing", "fontSize", "fontWeight", "borderRadius", "shadow">>

Contributing ==
    {k \in 1..Len(SixCategories) :
        /\ ~theme_context.none
        /\ SixCategories[k] \in DOMAIN theme_context.dict
        /\ theme_context.dict[SixCategories[k]] # {}}

\* the positions of the lines of the block that begin with the label of category k
LinesOf(block, k) ==
    {h \in 1..Len(BlockLines(block)) :
        str_startswith(BlockLines(block)[h], line_label(SixCategories[k]))}

NoTokensOpening ==
    <<"N", "o", " ", "s", "p", "e", "c", "i", "f", "i", "c", " ", "S", "A", "D",
      "S", " ", "t", "h", "e", "m", "e", " ", "t", "o", "k", "e", "n", "s", " ",
      "p", "r", "o", "v", "i", "d", "e", "d">>

TokenBlockAsClaimed(block) ==
    IF Contributing = {}
    THEN str_startswith(block, NoTokensOpening) /\ Len(BlockLines(block)) = 1
    ELSE /\ Len(BlockLines(block)) = 1 + Cardinality(Contributing)
         /\ \A k \in 1..Len(SixCategories) :
               IF k \in Contributing
               THEN /\ Cardinality(LinesOf(block, k)) = 1
                    /\ \A h \in LinesOf(block, k) :
                          /\ h = 1 + Cardinality({j \in Contributing : j <= k})
                          /\ NamesAfter(BlockLines(block)[h], line_label(SixCategories[k]))
                                = theme_context.dict[SixCategories[k]]
               ELSE LinesOf(block, k) = {}

C19_TokenBlock ==
    prompt_pc = "done" => TokenBlockAsClaimed(prompt.theme_tokens)

\* colors absent, spacing empty, the four other categories listed
C19_Witness ==
    /\ prompt_pc = "done"
    /\ "colors" \notin DOMAIN theme_context.dict
    /\ "spacing" \in DOMAIN theme_context.dict
    /\ theme_context.dict["spacing"] = {}
    /\ Cardinality(Contributing) = 4
    /\ Len(BlockLines(prompt.theme_tokens)) = 5

(***************************************************************************)
(* C17: the theme is only read: no step of parse_llm_sads_string_to_dict   *)
(* or of construct_llm_prompt changes theme_context; and a call returns    *)
(* what every earlier call with the same arguments returned.               *)
(***************************************************************************)
C17_ThemeOnlyRead ==
    [][ /\ theme_context' = theme_context
        /\ pc' = "done" =>
              \A k \in 1..Len(earlier') : result' = earlier'[k].attributes
        /\ prompt_pc' = "done" =>
              \A k \in 1..Len(earlier') : prompt' = earlier'[k].prompt ]_vars

\* the second pair of calls has returned, a token entry among the results
C17_Witness ==
    /\ Len(earlier) = 1
    /\ pc = "done"
    /\ prompt_pc = "done"
    /\ theme_truthy(theme_context)
    /\ result # EmptyDict
    /\ result = earlier[1].attributes
    /\ prompt = earlier[1].prompt
    /\ Len(context_str_parts) > 0

(***************************************************************************)
(* C18: concurrent calls that share the theme, interleaved between loop    *)
(* iterations: at every moment the attributes map of a call is what the    *)
(* call alone would have built from the fragments it has run on, so it     *)
(* holds no entry of another call's input; and each call returns what it   *)
(* returns alone.                                                          *)
(***************************************************************************)
C18_ConcurrentCallsIndependent ==
    \A p \in DOMAIN invocations :
        /\ invocations[p].pc = "loop" =>
              invocations[p].attributes_map
                  = parse_loop(SubSeq(invocations[p].raw_attributes, 1,
                                      invocations[p].idx - 1),
                               1, EmptyDict, theme_context)
        /\ invocations[p].pc = "done" =>
              invocations[p].result
                  = parse_llm_sads_string_to_dict(invocations[p].sads_attributes_string,
                                                  theme_context)

\* two calls in the middle of their loops, each with an entry of its own
C18_Witness ==
    /\ DOMAIN invocations = 1..MaxInvocations
    /\ \A p \in 1..2 : invocations[p].pc = "loop" /\ invocations[p].idx = 2
    /\ Len(invocations[1].raw_attributes) = 2
    /\ invocations[1].attributes_map # EmptyDict
    /\ invocations[2].attributes_map # EmptyDict
    /\ invocations[1].attributes_map # invocations[2].attributes_map

(***************************************************************************)
(* C30: an accepted fragment whose lower-cased key is one of textalign,    *)
(* display, position, overflow, cursor, transition, boxsizing and resize   *)
(* is stored as custom_value, holding the raw value or the value without   *)
(* its custom: prefix, for every value and theme, also when the value is a *)
(* key of every category of the theme.                                     *)
(***************************************************************************)
AllowListed(key) ==
    str_lower(key) \in
        { <<"t", "e", "x", "t", "a", "l", "i", "g", "n">>,
          <<"d", "i", "s", "p", "l", "a", "y">>,
          <<"p", "o", "s", "i", "t", "i", "o", "n">>,
          <<"o", "v", "e", "r", "f", "l", "o", "w">>,
          <<"c", "u", "r", "s", "o", "r">>,
          <<"t", "r", "a", "n", "s", "i", "t", "i", "o", "n">>,
          <<"b", "o", "x", "s", "i", "z", "i", "n", "g">>,
          <<"r", "e", "s", "i", "z", "e">> }

C30_AllowListAlwaysCustom ==
    (LastAccepted /\ AllowListed(LastKey)) =>
        LastEntry = [v \in {"custom_value"} |->
                        IF HasCustomPrefix(LastValue)
                        THEN WithoutCustomPrefix(LastValue)
                        ELSE LastValue]

\* boxSizing="m" with m a key of every category of the theme
C30_Witness ==
    /\ pc = "done"
    /\ LastAccepted
    /\ LastKey = <<"b", "o", "x", "S", "i", "z", "i", "n", "g">>
    /\ theme_context = ThemeFull
    /\ LastEntry = [v \in {"custom_value"} |-> TokenM]

(***************************************************************************)
(* C21: in main the parser is called only once the LLM call has returned a *)
(* non-empty string, and with that string and the loaded theme; when the   *)
(* API key is missing, the provider unknown, the HTML file missing, the    *)
(* theme not loadable, or the LLM call returned None or an empty string,   *)
(* the parser is never called.                                             *)
(***************************************************************************)
ParserCalled == pc # "idle"

MainFailed ==
    \/ main_frame.provider = "other"
    \/ ~main_frame.key_set
    \/ main_frame.html_file = "not_found"
    \/ main_frame.theme_file # "loaded"
    \/ main_frame.pc \in {"response", "parsing", "returned"}
          /\ \/ main_frame.generated_attributes_string.none
             \/ main_frame.generated_attributes_string.text = << >>

C21_ParserOnlyAfterLlmString ==
    /\ ParserCalled =>
          /\ main_frame.pc \in {"parsing", "returned"}
          /\ ~main_frame.generated_attributes_string.none
          /\ main_frame.generated_attributes_string.text # << >>
          /\ sads_attributes_string = main_frame.generated_attributes_string.text
          /\ theme_context = main_frame.sads_theme_context
          /\ main_frame.sads_theme_context = main_frame.theme
    /\ MainFailed => ~ParserCalled

\* main has returned after the parser built an entry from the LLM's answer
C21_Witness ==
    /\ main_frame.pc = "returned"
    /\ pc = "done"
    /\ result # EmptyDict
    /\ sads_attributes_string = Declaration(NamePadding, TokenM)

(***************************************************************************)
(* C22: copy_wasm_assets returns True only if both essential assets,       *)
(* sads_poc.wasm and wasm_exec.js, were copied to the main application's   *)
(* wasm directory in this call, and returns False whenever either of the   *)
(* two copies did not succeed.                                             *)
(***************************************************************************)
EssentialAssets == {SadsPocWasm, WasmExecJs}

C22_TrueIffBothCopied ==
    WasmAt("returned") =>
        (bundler.returned = (EssentialAssets \subseteq bundler.main_app))

\* what the method does guarantee: False is returned only when one is missing
C22_FalseOnlyIfOneMissing ==
    WasmAt("returned") /\ bundler.returned = FALSE =>
        ~(EssentialAssets \subseteq bundler.main_app)

(***************************************************************************)
(* C28: in the JS bundle written by bundle_js the shared files appear in   *)
(* the fixed list order and before every component JS file: when present,  *)
(* sads-default-theme.js and sads-style-engine.js precede sadsManager.js   *)
(* and app.js follows all module files; a missing file, critical or        *)
(* optional, is skipped without changing the order of the remaining files. *)
(***************************************************************************)
BundleWritten == BundleJsAt("returned") /\ bundler.returned = "main.js"

\* the files whose content stands in the bundle, and the labels, in order
SourcesIn(file) == [i \in DOMAIN file.blocks |-> file.blocks[i].content.read_from]

LabelsIn(file) == [i \in DOMAIN file.blocks |-> file.blocks[i].source]

IsShared(path) == \E k \in DOMAIN shared_js_paths_ordered : shared_js_paths_ordered[k] = path

ListIndex(path) ==
    CHOOSE k \in DOMAIN shared_js_paths_ordered : shared_js_paths_ordered[k] = path

\* a before b: both shared and in list order, or a shared and b a component,
\* or both components
InBundleOrder(a, b) ==
    IF IsShared(a) /\ IsShared(b) THEN ListIndex(a) < ListIndex(b) ELSE IsShared(a) \/ ~IsShared(b)

ComponentFiles == { component_js(bundler.env.components[i]) : i \in DOMAIN bundler.env.components }

C28_SharedOrderKept ==
    BundleWritten =>
        LET src == SourcesIn(bundler.main_js)
            lab == LabelsIn(bundler.main_js)
        IN  /\ \A i, j \in DOMAIN src : i < j => InBundleOrder(src[i], src[j])
            /\ \A i, j \in DOMAIN src :
                  /\ basename(src[i]) \in {"sads-default-theme.js", "sads-style-engine.js"}
                  /\ basename(src[j]) = "sadsManager.js"
                  => i < j
            /\ \A i, j \in DOMAIN src :
                  src[i].dir = ModulesDir /\ src[j] = path_join(SharedJsDir, "app.js")
                  => i < j
            /\ \A i, j \in DOMAIN src : src[i] = src[j] => i = j
            /\ { src[i] : i \in DOMAIN src }
                  = (bundler.env.existing \cup ComponentFiles) \ bundler.env.unreadable
            /\ \A i, j \in DOMAIN lab :
                  i < j => \E a, b \in SharedPaths \cup ComponentFiles :
                              /\ basename(a) = lab[i] /\ basename(b) = lab[j]
                              /\ InBundleOrder(a, b)

\* a bundle of two components written with a critical and an optional file
\* missing, and with sadsManager.js and app.js present
C28_Witness ==
    /\ BundleWritten
    /\ Len(bundler.env.components) = 2
    /\ path_join(CompiledTsDir, "sads-style-engine.js") \notin bundler.env.existing
    /\ path_join(ModulesDir, "darkMode.js") \notin bundler.env.existing
    /\ path_join(ModulesDir, "sadsManager.js") \in bundler.env.existing
    /\ path_join(SharedJsDir, "app.js") \in bundler.env.existing
    /\ Len(bundler.main_js.blocks) > 4

(***************************************************************************)
(* C29: every content block of the JS bundle is preceded by a Source label *)
(* naming the file the content was read from, for every combination of     *)
(* files that are found and files whose read fails with an IOError.        *)
(***************************************************************************)
C29_LabelNamesSource ==
    BundleWritten =>
        \A i \in DOMAIN bundler.main_js.blocks :
            bundler.main_js.blocks[i].source
                = basename(bundler.main_js.blocks[i].content.read_from)

\* the labels are right when every read succeeds
C29_HoldsWhenEveryReadSucceeds ==
    /\ BundleWritten
    /\ \A i \in DOMAIN bundler.js_files_to_bundle :
          bundler.js_files_to_bundle[i] \notin bundler.env.unreadable
    => \A i \in DOMAIN bundler.main_js.blocks :
          bundler.main_js.blocks[i].source
              = basename(bundler.main_js.blocks[i].content.read_from)

(***************************************************************************)
(* C23: JsonProtoDataLoader reports a missing or undecodable data file as  *)
(* an empty result, not as a raised exception: load_dynamic_list_data      *)
(* returns [] when the file does not exist or holds invalid JSON, and      *)
(* load_dynamic_single_item_data returns None when the file does not exist.*)
(***************************************************************************)
JsonProtoCalls ==
    IF data # Idle /\ data.env.loader = "JsonProtoDataLoader"
    THEN { data.calls[i] : i \in DOMAIN data.calls } ELSE {}

StateOf(call) == data.env.files[call.data_file]

C23_EmptyResultForMissingFile ==
    \A call \in JsonProtoCalls :
        /\ call.is_list /\ StateOf(call) \in {"missing", "invalid_json"}
              => call.outcome = Returned(EmptyList)
        /\ ~call.is_list /\ StateOf(call) = "missing"
              => call.outcome = Returned(PyNone)

\* what the loader does in these cases: it raises, and never returns None
C23_LoaderRaisesInstead ==
    \A call \in JsonProtoCalls :
        /\ StateOf(call) = "missing" => call.outcome = Raised("DataFileNotFoundError")
        /\ StateOf(call) = "invalid_json" => call.outcome = Raised("DataJsonDecodeError")
        /\ call.outcome.raised = "no" => call.outcome.value \notin {PyNone, EmptyList}

(***************************************************************************)
(* C25: preload_data isolates failures: when loading a configured          *)
(* data_file raises an exception the key stays absent from the cache,      *)
(* every other configured entry is still loaded and cached, preload_data   *)
(* returns without raising, and entries lacking data_file or message_type  *)
(* are skipped without a loader call.                                      *)
(***************************************************************************)
Calls == IF data = Idle THEN {} ELSE { data.calls[i] : i \in DOMAIN data.calls }

CallsFor(data_file) == { call \in Calls : call.data_file = data_file }

ProcessedEntries == IF data = Idle THEN {} ELSE { p \in DOMAIN data.loaders_config : p < data.position }

GaveValue(call) == call.outcome.raised = "no" /\ call.outcome.value # PyNone

HeroReturned == HeroAt("returned")

NothingToRender == hero.data.none \/ hero.data.variations = << >>

\* the positions of data.variations that hold the default id
DefaultPositions ==
    { i \in DOMAIN hero.data.variations :
         hero.data.variations[i].variation_id = hero.data.default_variation_id }

Rendered == hero.selected_variation.content

C27_HeroVariationSelected ==
    HeroReturned =>
        /\ hero.html.comment # "<!-- Could not select a hero variation -->"
        /\ NothingToRender
              <=> hero.html.comment = "<!-- Hero data not found or no variations -->"
        /\ ~NothingToRender =>
              /\ ~hero.selected_variation.none
              /\ \E i \in DOMAIN hero.data.variations : hero.data.variations[i] = Rendered
              /\ hero.html = hero_html(Rendered, hero.translations)
              /\ hero.html.variation_id = Rendered.variation_id
              /\ hero.data.default_variation_id # "" /\ DefaultPositions # {}
                    => \E i \in DefaultPositions :
                          /\ hero.data.variations[i] = Rendered
                          /\ \A j \in DefaultPositions : i <= j

\* two different variations carry the default id v2, after one that does
\* not: the first of the two is rendered
C27_Witness ==
    /\ HeroReturned
    /\ hero.data.default_variation_id = "v2"
    /\ Len(hero.data.variations) > 2
    /\ hero.data.variations[1].variation_id = "v1"
    /\ hero.data.variations[2].variation_id = "v2"
    /\ hero.data.variations[3].variation_id = "v2"
    /\ hero.data.variations[2] # hero.data.variations[3]
    /\ Rendered = hero.data.variations[2]
    /\ hero.html.variation_id = "v2"

(***************************************************************************)
(* C24: a run of build main writes, for every supported language, exactly  *)
(* one config public/generated_configs/config_<lang>.json and exactly one  *)
(* page, index.html for the default language and index_<lang>.html for the *)
(* others, plus the bundles public/dist/main.css and public/dist/main.js,  *)
(* and opens no other file for writing; translations are loaded exactly    *)
(* once per language.                                                      *)
(***************************************************************************)
BuildRan == BuildAt("complete")

\* the open(..., "w") calls of the run, in order
WriteCalls ==
    LET for_writing(call) == call.mode = "w"
    IN  SelectSeq(build.opened, for_writing)

TimesOpenedForWriting(path) ==
    Cardinality({ i \in DOMAIN WriteCalls : WriteCalls[i].path = path })

Languages == { supported_langs[i] : i \in DOMAIN supported_langs }

PageOf(language) ==
    IF language = default_lang THEN "index.html" ELSE "index_" \o language \o ".html"

ConfigOf(language) == "public/generated_configs/config_" \o language \o ".json"

Bundles == {"public/dist/main.css", "public/dist/main.js"}

TranslationsLoadedOncePerLanguage ==
    \A language \in Languages :
        Cardinality({ i \in DOMAIN build.translations_loaded :
                         build.translations_loaded[i] = language }) = 1

C24_WritesPagesConfigsAndBundles ==
    BuildRan =>
        /\ \A language \in Languages :
              /\ TimesOpenedForWriting(ConfigOf(language)) = 1
              /\ TimesOpenedForWriting(PageOf(language)) = 1
        /\ \A path \in Bundles : TimesOpenedForWriting(path) = 1
        /\ \A i \in DOMAIN WriteCalls :
              WriteCalls[i].path \in Bundles
                 \cup { ConfigOf(language) : language \in Languages }
                 \cup { PageOf(language) : language \in Languages }
        /\ TranslationsLoadedOncePerLanguage

\* what the run does: the claim without the two bundles
C24_HoldsWithoutBundles ==
    BuildRan =>
        /\ \A language \in Languages :
              /\ TimesOpenedForWriting(ConfigOf(language)) = 1
              /\ TimesOpenedForWriting(PageOf(language)) = 1
        /\ \A i \in DOMAIN WriteCalls :
              WriteCalls[i].path \in { ConfigOf(language) : language \in Languages }
                 \cup { PageOf(language) : language \in Languages }
        /\ TranslationsLoadedOncePerLanguage

====
